---- MODULE Spec2Model ----
(***************************************************************************)
(* Change reconciliation of the graph panels.                              *)
(*                                                                         *)
(* applyChangesToCanvas (PrincipalViewGraphPanel) and applyChangesToConfig *)
(* (VisualValidationGraphPanel) merge a PendingChanges batch into a        *)
(* document.  Both work on JavaScript objects, so the model keeps an       *)
(* object store (heap): a document is an address, its arrays, nodes and    *)
(* edges are objects of their own, and an assignment such as               *)
(* node.x = ... is a write to the object the reference points at.  The     *)
(* deep copy JSON.parse(JSON.stringify(x)) is modelled as what it does:    *)
(* a read-out of the object graph as a value followed by the allocation    *)
(* of fresh objects for that value.                                        *)
(***************************************************************************)
EXTENDS Integers, Sequences, FiniteSets, TLC

VARIABLES
    heap,           \* the object store: address i holds the object heap[i]
    canvas,         \* address of the canvas document passed as `canvas`
    config,         \* address of the path-based document passed as `config`
    changes,        \* the PendingChanges batch handed over by the renderer
    times,          \* the values the successive Date.now() calls return
    updatedCanvas,  \* address returned by applyChangesToCanvas (0: not called yet)
    updatedConfig,  \* address returned by applyChangesToConfig (0: not called yet)
    pc,             \* "input" before the call, "done" after it, "panel" when a panel runs
    kind,           \* the mounted panel: "config" (graph panel), "trace" (trace viewer)
    tree,           \* the fileTree slice of the host
    host,           \* which of readFile, writeFile, repositoryPath the host provides
    panel,          \* the React state of the panel with every queued updater applied
    state,          \* the React state of the last render: what callbacks, refs and buttons see
    updates,        \* what is queued for the next render
    pendingEffects, \* the effects of the last render that have not run yet
    calls,          \* the loadConfiguration / loadTrace / saveAllChanges calls, in start order
    edits,          \* the pending changes the mounted GraphRenderer holds
    written,        \* the writeFile calls that resolved: path and content
    refs,           \* the identities of the slice's data object and of its file records
    published,      \* how many of the writes the fileTree slice has taken up
    fileTreeLoadingRef,     \* fileTreeLoadingRef.current
    fileTreeDataRef,        \* fileTreeDataRef.current
    skipNextFileChangeRef,  \* skipNextFileChangeRef.current
    closureUnsaved          \* state.hasUnsavedChanges as the memoised saveAllChanges sees it

reconcilerVars == <<heap, canvas, config, changes, times, updatedCanvas, updatedConfig, pc>>

hostVars == <<refs, published>>

handlerVars == <<fileTreeLoadingRef, fileTreeDataRef, skipNextFileChangeRef>>

effectVars == <<fileTreeLoadingRef, fileTreeDataRef, skipNextFileChangeRef, closureUnsaved>>

reactVars == <<state, updates, pendingEffects>>

panelVars == <<kind, tree, host, panel, calls, edits, written, hostVars, effectVars, reactVars>>

vars == <<reconcilerVars, panelVars>>

\* ------------------------------------------------------------------ values

\* JavaScript's undefined, for optional strings.
Undefined == "undefined"

\* Truthiness of an optional string: undefined and '' are falsy.
Truthy(s) == s # Undefined /\ s # ""

\* The address that stands for an absent (undefined) object reference.
NoRef == 0

\* Math.round on a coordinate given in tenths of a unit (104 is 10.4):
\* the nearest integer, a half rounding towards +infinity.
MathRound(tenths) == (tenths + 5) \div 10

\* The items of a sequence, as a set.
Range(s) == {s[i] : i \in 1..Len(s)}

\* An array of n items, built item by item: the array with f[1], ..., f[n].
RECURSIVE ArrayOf(_, _)
ArrayOf(f, n) == IF n = 0 THEN <<>> ELSE Append(ArrayOf(f, n - 1), f[n])

\* Array.prototype.filter on a sequence; keep is the set of the items that
\* pass the callback.
SeqFilter(s, keep) == SelectSeq(s, LAMBDA x : x \in keep)

\* Array.prototype.find / findIndex: the first index whose item passes the
\* callback, 0 if none; hits is the set of the items that pass.
FirstIndex(s, hits) ==
    IF \E i \in 1..Len(s) : s[i] \in hits
    THEN CHOOSE i \in 1..Len(s) : s[i] \in hits /\ \A j \in 1..(i - 1) : s[j] \notin hits
    ELSE 0

\* ------------------------------------------------------------------ heap

\* Allocation of a run of new objects at the end of the store.
Alloc(h, objs) == h \o objs

\* The items of the array object at address a; an absent array has none.
Items(h, a) == IF a = NoRef THEN <<>> ELSE h[a].items

\* ------------------------------------------------------------------ canvas documents

\* JSON.stringify of a canvas: the value reachable from address c.
\* hasNodes / hasEdges tell an absent array from an empty one.
CanvasValue(h, c) ==
    [ hasNodes |-> h[c].nodes # NoRef,
      nodes    |-> ArrayOf([i \in 1..Len(Items(h, h[c].nodes)) |-> h[Items(h, h[c].nodes)[i]]],
                          Len(Items(h, h[c].nodes))),
      hasEdges |-> h[c].edges # NoRef,
      edges    |-> ArrayOf([i \in 1..Len(Items(h, h[c].edges)) |-> h[Items(h, h[c].edges)[i]]],
                          Len(Items(h, h[c].edges))),
      layout   |-> h[c].layout ]

\* JSON.parse of a canvas value: fresh node and edge objects, fresh arrays and
\* a fresh document object, allocated after everything the store holds.
\* Returns the new store and the address of the new document.
CanvasParse(h, v) ==
    LET base  == Len(h)
        n     == Len(v.nodes)
        m     == Len(v.edges)
        nArr  == IF v.hasNodes THEN base + n + m + 1 ELSE NoRef
        eArr  == IF v.hasEdges THEN base + n + m + 2 ELSE NoRef
        doc   == base + n + m + 3
    IN  [ heap |-> Alloc(h, v.nodes \o v.edges \o
                     << [items |-> ArrayOf([i \in 1..n |-> base + i], n)],
                        [items |-> ArrayOf([j \in 1..m |-> base + n + j], m)],
                        [nodes |-> nArr, edges |-> eArr, layout |-> v.layout] >>),
          ref  |-> doc ]

\* A copy of the document object alone ({ ...canvas }): arrays, nodes and
\* edges stay shared with the original.
CanvasShallowCopy(h, c) == [heap |-> Alloc(h, << h[c] >>), ref |-> Len(h) + 1]

\* const updatedCanvas = JSON.parse(JSON.stringify(canvas))
CanvasDeepCopy(h, c) == CanvasParse(h, CanvasValue(h, c))

\* updatedCanvas.nodes?.find(n => n.id === nodeId): the address of the first
\* node with that id, NoRef when there is none (or no nodes array).
FindNode(h, c, nodeId) ==
    LET items == Items(h, h[c].nodes)
        i     == FirstIndex(items, {a \in Range(items) : h[a].id = nodeId})
    IN  IF i = 0 THEN NoRef ELSE items[i]

\* for (const { nodeId, position } of changes.positionChanges) { ... }
RECURSIVE CanvasPositionChanges(_, _, _)
CanvasPositionChanges(h, c, list) ==
    IF list = <<>> THEN h
    ELSE LET node == FindNode(h, c, Head(list).nodeId)
             h1   == IF node = NoRef THEN h
                     ELSE [h EXCEPT ![node].x = MathRound(Head(list).position.x),
                                    ![node].y = MathRound(Head(list).position.y)]
         IN  CanvasPositionChanges(h1, c, Tail(list))

\* for (const { nodeId, dimensions } of changes.dimensionChanges) { ... }
RECURSIVE CanvasDimensionChanges(_, _, _)
CanvasDimensionChanges(h, c, list) ==
    IF list = <<>> THEN h
    ELSE LET node == FindNode(h, c, Head(list).nodeId)
             h1   == IF node = NoRef THEN h
                     ELSE [h EXCEPT ![node].width = Head(list).dimensions.width,
                                    ![node].height = Head(list).dimensions.height]
         IN  CanvasDimensionChanges(h1, c, Tail(list))

\* A rename that changes node.id and leaves the edges as they are.
CanvasRenameNodeOnly(h, c, node, nodeId, type) == [h EXCEPT ![node].id = type]

\* The rename branch of a node update: node.id = updates.type, then every edge
\* object of updatedCanvas.edges has fromNode / toNode rewritten in place.
CanvasRename(h, c, node, nodeId, type) ==
    LET edgeRefs == {Items(h, h[c].edges)[i] : i \in 1..Len(Items(h, h[c].edges))}
    IN  ArrayOf([a \in 1..Len(h) |->
                    IF a \in edgeRefs
                    THEN [h[a] EXCEPT !.fromNode = IF @ = nodeId THEN type ELSE @,
                                      !.toNode   = IF @ = nodeId THEN type ELSE @]
                    ELSE IF a = node THEN [h[a] EXCEPT !.id = type]
                    ELSE h[a]],
                Len(h))

\* The data branch of a node update: icon goes to node.pv.icon when the node
\* has a pv object, label goes to node.text when the node has a text property.
CanvasDataUpdate(h, node, data) ==
    LET h1 == IF data.present /\ Truthy(data.icon) /\ h[node].hasPv
              THEN [h EXCEPT ![node].icon = data.icon] ELSE h
    IN  IF data.present /\ data.label # Undefined /\ h1[node].hasText
        THEN [h1 EXCEPT ![node].text = data.label] ELSE h1

\* One entry of changes.nodeUpdates.
CanvasNodeUpdate(h, c, upd) ==
    LET node == FindNode(h, c, upd.nodeId)
    IN  IF node = NoRef THEN h
        ELSE LET h1 == IF Truthy(upd.updates.type) /\ upd.updates.type # upd.nodeId
                       THEN CanvasRename(h, c, node, upd.nodeId, upd.updates.type)
                       ELSE h
             IN  CanvasDataUpdate(h1, node, upd.updates.data)

\* for (const { nodeId, updates } of changes.nodeUpdates) { ... }
RECURSIVE CanvasNodeUpdates(_, _, _)
CanvasNodeUpdates(h, c, list) ==
    IF list = <<>> THEN h
    ELSE CanvasNodeUpdates(CanvasNodeUpdate(h, c, Head(list)), c, Tail(list))

\* array.filter(...) assigned back to a field: a new array object holding the
\* references that pass (those in keep); the field of the document object is
\* redirected to it.  field is "nodes" or "edges".
FilterField(h, c, field, keep) ==
    IF h[c][field] = NoRef THEN h
    ELSE LET kept == SeqFilter(Items(h, h[c][field]), keep)
             h1   == Alloc(h, << [items |-> kept] >>)
         IN  [h1 EXCEPT ![c][field] = Len(h1)]

\* One entry of changes.deletedNodeIds: the node and every edge touching it.
CanvasDeleteNode(h, c, nodeId) ==
    LET h1 == FilterField(h, c, "nodes",
                          {a \in Range(Items(h, h[c].nodes)) : h[a].id # nodeId})
    IN  FilterField(h1, c, "edges",
                    {a \in Range(Items(h1, h1[c].edges)) :
                        h1[a].fromNode # nodeId /\ h1[a].toNode # nodeId})

\* for (const nodeId of changes.deletedNodeIds) { ... }
RECURSIVE CanvasNodeDeletions(_, _, _)
CanvasNodeDeletions(h, c, list) ==
    IF list = <<>> THEN h
    ELSE CanvasNodeDeletions(CanvasDeleteNode(h, c, Head(list)), c, Tail(list))

\* One entry of changes.deletedEdges, matched by (from, to, type).
CanvasDeleteEdge(h, c, del) ==
    FilterField(h, c, "edges",
                {a \in Range(Items(h, h[c].edges)) :
                    ~(h[a].fromNode = del.from /\ h[a].toNode = del.to
                      /\ h[a].edgeType = del.type)})

\* for (const { from, to, type } of changes.deletedEdges) { ... }
RECURSIVE CanvasEdgeDeletions(_, _, _)
CanvasEdgeDeletions(h, c, list) ==
    IF list = <<>> THEN h
    ELSE CanvasEdgeDeletions(CanvasDeleteEdge(h, c, Head(list)), c, Tail(list))

\* A conversion that stores the handle id as it is.
HandleAsSide(handle) == handle

\* Convert a React Flow handle id back to a canvas side: strip a trailing
\* '-out', keep the result when it is one of the four sides.
handleToCanvasSide(handle) ==
    IF ~Truthy(handle) THEN Undefined
    ELSE LET side == CASE handle = "top-out"    -> "top"
                       [] handle = "right-out"  -> "right"
                       [] handle = "bottom-out" -> "bottom"
                       [] handle = "left-out"   -> "left"
                       [] OTHER                 -> handle
         IN  IF side \in {"top", "right", "bottom", "left"} THEN side ELSE Undefined

\* An edge creation that puts the new edge in front of the edges array.
CanvasCreateEdgeInFront(h, c, cr, now) ==
    LET h1   == IF h[c].edges # NoRef THEN h
                ELSE LET h0 == Alloc(h, << [items |-> <<>>] >>)
                     IN  [h0 EXCEPT ![c].edges = Len(h0)]
        edge == [ id       |-> <<"edge", cr.from, cr.to, now>>,
                  fromNode |-> cr.from,
                  toNode   |-> cr.to,
                  fromSide |-> handleToCanvasSide(cr.sourceHandle),
                  toSide   |-> handleToCanvasSide(cr.targetHandle),
                  edgeType |-> cr.type ]
        h2   == Alloc(h1, << edge >>)
    IN  [h2 EXCEPT ![h1[c].edges].items = <<Len(h2)>> \o @]

\* One entry of changes.createdEdges, created when Date.now() returns now:
\* the edges array is made if absent, and a new edge object is pushed onto it.
CanvasCreateEdge(h, c, cr, now) ==
    LET h1   == IF h[c].edges # NoRef THEN h
                ELSE LET h0 == Alloc(h, << [items |-> <<>>] >>)
                     IN  [h0 EXCEPT ![c].edges = Len(h0)]
        edge == [ id       |-> <<"edge", cr.from, cr.to, now>>,
                  fromNode |-> cr.from,
                  toNode   |-> cr.to,
                  fromSide |-> handleToCanvasSide(cr.sourceHandle),
                  toSide   |-> handleToCanvasSide(cr.targetHandle),
                  edgeType |-> cr.type ]
        h2   == Alloc(h1, << edge >>)
    IN  [h2 EXCEPT ![h1[c].edges].items = Append(@, Len(h2))]

\* for (const { from, to, type, sourceHandle, targetHandle } of changes.createdEdges) { ... }
\* nows[k] is what Date.now() returns for the k-th entry.
RECURSIVE CanvasEdgeCreations(_, _, _, _)
CanvasEdgeCreations(h, c, list, nows) ==
    IF list = <<>> THEN h
    ELSE CanvasEdgeCreations(CanvasCreateEdge(h, c, Head(list), Head(nows)),
                             c, Tail(list), Tail(nows))

\* The edge passes the other way round: creations first, then deletions.
CanvasEdgePassesCreationsFirst(h, c, ch, nows) ==
    CanvasEdgeDeletions(CanvasEdgeCreations(h, c, ch.createdEdges, nows), c, ch.deletedEdges)

\* The edge passes of applyChangesToCanvas, in the order of the source:
\* deletions first, then creations.
CanvasEdgePasses(h, c, ch, nows) ==
    CanvasEdgeCreations(CanvasEdgeDeletions(h, c, ch.deletedEdges), c, ch.createdEdges, nows)

\* applyChangesToCanvas(canvas, changes): the store after the call and the
\* address of the returned document.
applyChangesToCanvas(h, c, ch, nows) ==
    LET copy == CanvasDeepCopy(h, c)
        u    == copy.ref
        h1   == CanvasPositionChanges(copy.heap, u, ch.positionChanges)
        h2   == CanvasDimensionChanges(h1, u, ch.dimensionChanges)
        h3   == CanvasNodeUpdates(h2, u, ch.nodeUpdates)
        h4   == CanvasNodeDeletions(h3, u, ch.deletedNodeIds)
        h5   == CanvasEdgePasses(h4, u, ch, nows)
    IN  [heap |-> h5, ref |-> u]

\* ------------------------------------------------------------------ path-based documents

\* The entries of the nodeTypes object at address m, in key order.
Entries(h, m) == h[m].entries

\* updatedConfig.nodeTypes[key]: the address stored under key, NoRef if absent.
Lookup(h, m, key) ==
    LET i == FirstIndex(Entries(h, m), {e \in Range(Entries(h, m)) : e.key = key})
    IN  IF i = 0 THEN NoRef ELSE Entries(h, m)[i].ref

\* nodeTypes[key] = ref: an existing key keeps its place, a new key goes last.
MapSet(h, m, key, ref) ==
    LET i == FirstIndex(Entries(h, m), {e \in Range(Entries(h, m)) : e.key = key})
    IN  IF i = 0 THEN [h EXCEPT ![m].entries = Append(@, [key |-> key, ref |-> ref])]
        ELSE [h EXCEPT ![m].entries[i].ref = ref]

\* delete nodeTypes[key]
MapDelete(h, m, key) ==
    [h EXCEPT ![m].entries = SeqFilter(@, {e \in Range(Entries(h, m)) : e.key # key})]

\* JSON.stringify of a path-based configuration: the value reachable from g.
ConfigValue(h, g) ==
    LET ents  == Entries(h, h[g].nodeTypes)
        conns == Items(h, h[g].allowedConnections)
    IN  [ nodeTypes          |-> ArrayOf([i \in 1..Len(ents) |->
                                    [key |-> ents[i].key, value |-> h[ents[i].ref]]],
                                    Len(ents)),
          allowedConnections |-> ArrayOf([i \in 1..Len(conns) |-> h[conns[i]]], Len(conns)),
          hasDisplay         |-> h[g].display # NoRef,
          layout             |-> IF h[g].display = NoRef THEN Undefined
                                 ELSE h[h[g].display].layout ]

\* JSON.parse of a configuration value: fresh objects for the node types, the
\* connections, the nodeTypes object, the connections array, the display
\* object and the document.
ConfigParse(h, v) ==
    LET base == Len(h)
        n    == Len(v.nodeTypes)
        m    == Len(v.allowedConnections)
        disp == IF v.hasDisplay THEN base + n + m + 3 ELSE NoRef
    IN  [ heap |-> Alloc(h,
                     ArrayOf([i \in 1..n |-> v.nodeTypes[i].value], n)
                     \o v.allowedConnections \o
                     << [entries |-> ArrayOf([i \in 1..n |->
                                        [key |-> v.nodeTypes[i].key, ref |-> base + i]], n)],
                        [items |-> ArrayOf([j \in 1..m |-> base + n + j], m)],
                        [layout |-> v.layout],
                        [nodeTypes |-> base + n + m + 1,
                         allowedConnections |-> base + n + m + 2,
                         display |-> disp] >>),
          ref  |-> base + n + m + 4 ]

\* let updatedConfig = JSON.parse(JSON.stringify(config))
ConfigDeepCopy(h, g) == ConfigParse(h, ConfigValue(h, g))

\* One entry of changes.positionChanges: a present node type is replaced by a
\* new object { ...old, position: { x, y } }.
ConfigPositionChange(h, g, chg) ==
    LET old == Lookup(h, h[g].nodeTypes, chg.nodeId)
    IN  IF old = NoRef THEN h
        ELSE LET h1 == Alloc(h, << [h[old] EXCEPT
                                      !.hasPosition = TRUE,
                                      !.px = MathRound(chg.position.x),
                                      !.py = MathRound(chg.position.y)] >>)
             IN  MapSet(h1, h1[g].nodeTypes, chg.nodeId, Len(h1))

\* for (const { nodeId, position } of changes.positionChanges) { ... }
RECURSIVE ConfigPositionChanges(_, _, _)
ConfigPositionChanges(h, g, list) ==
    IF list = <<>> THEN h
    ELSE ConfigPositionChanges(ConfigPositionChange(h, g, Head(list)), g, Tail(list))

\* allowedConnections.map(conn => ({ ...conn, from: ..., to: ... })): a new
\* array of new connection objects with the renamed endpoints.
ConfigRenameConnections(h, g, nodeId, type) ==
    LET conns == Items(h, h[g].allowedConnections)
        m     == Len(conns)
        base  == Len(h)
        h1    == Alloc(h, ArrayOf([j \in 1..m |->
                     [h[conns[j]] EXCEPT !.from = IF @ = nodeId THEN type ELSE @,
                                         !.to   = IF @ = nodeId THEN type ELSE @]], m)
                     \o << [items |-> ArrayOf([j \in 1..m |-> base + j], m)] >>)
    IN  [h1 EXCEPT ![g].allowedConnections = Len(h1)]

\* The rename branch of a node update: the node type moves to the new key and
\* the connections are rewritten.
ConfigRename(h, g, nodeId, type) ==
    LET nodeType == Lookup(h, h[g].nodeTypes, nodeId)
        h1       == MapDelete(h, h[g].nodeTypes, nodeId)
        h2       == MapSet(h1, h1[g].nodeTypes, type, nodeType)
    IN  ConfigRenameConnections(h2, g, nodeId, type)

\* The data branch of a node update: a truthy icon is written to the node type
\* found under updates.type || nodeId.
ConfigDataUpdate(h, g, upd) ==
    LET targetId == IF Truthy(upd.updates.type) THEN upd.updates.type ELSE upd.nodeId
        data     == upd.updates.data
    IN  IF data.present /\ Truthy(data.icon)
        THEN [h EXCEPT ![Lookup(h, h[g].nodeTypes, targetId)].icon = data.icon]
        ELSE h

\* One entry of changes.nodeUpdates.
ConfigNodeUpdate(h, g, upd) ==
    IF Lookup(h, h[g].nodeTypes, upd.nodeId) = NoRef THEN h
    ELSE LET h1 == IF Truthy(upd.updates.type) /\ upd.updates.type # upd.nodeId
                   THEN ConfigRename(h, g, upd.nodeId, upd.updates.type)
                   ELSE h
         IN  ConfigDataUpdate(h1, g, upd)

\* for (const { nodeId, updates } of changes.nodeUpdates) { ... }
RECURSIVE ConfigNodeUpdates(_, _, _)
ConfigNodeUpdates(h, g, list) ==
    IF list = <<>> THEN h
    ELSE ConfigNodeUpdates(ConfigNodeUpdate(h, g, Head(list)), g, Tail(list))

\* allowedConnections = allowedConnections.filter(...): a new array object
\* holding the references that pass (those in keep).
ConfigFilterConnections(h, g, keep) ==
    LET h1 == Alloc(h, << [items |-> SeqFilter(Items(h, h[g].allowedConnections), keep)] >>)
    IN  [h1 EXCEPT ![g].allowedConnections = Len(h1)]

\* One entry of changes.deletedNodeIds.
ConfigDeleteNode(h, g, nodeId) ==
    LET h1 == MapDelete(h, h[g].nodeTypes, nodeId)
    IN  ConfigFilterConnections(h1, g,
            {a \in Range(Items(h1, h1[g].allowedConnections)) :
                h1[a].from # nodeId /\ h1[a].to # nodeId})

\* for (const nodeId of changes.deletedNodeIds) { ... }
RECURSIVE ConfigNodeDeletions(_, _, _)
ConfigNodeDeletions(h, g, list) ==
    IF list = <<>> THEN h
    ELSE ConfigNodeDeletions(ConfigDeleteNode(h, g, Head(list)), g, Tail(list))

\* One entry of changes.createdEdges: pushed unless a connection with the same
\* (from, to, via) exists.
ConfigCreateEdge(h, g, cr) ==
    LET arr    == h[g].allowedConnections
        exists == \E j \in 1..Len(Items(h, arr)) :
                     /\ h[Items(h, arr)[j]].from = cr.from
                     /\ h[Items(h, arr)[j]].to = cr.to
                     /\ h[Items(h, arr)[j]].via = cr.type
    IN  IF exists THEN h
        ELSE LET h1 == Alloc(h, << [from |-> cr.from, to |-> cr.to, via |-> cr.type] >>)
             IN  [h1 EXCEPT ![arr].items = Append(@, Len(h1))]

\* for (const { from, to, type } of changes.createdEdges) { ... }
RECURSIVE ConfigEdgeCreations(_, _, _)
ConfigEdgeCreations(h, g, list) ==
    IF list = <<>> THEN h
    ELSE ConfigEdgeCreations(ConfigCreateEdge(h, g, Head(list)), g, Tail(list))

\* One entry of changes.deletedEdges.
ConfigDeleteEdge(h, g, del) ==
    ConfigFilterConnections(h, g,
        {a \in Range(Items(h, h[g].allowedConnections)) :
            ~(h[a].from = del.from /\ h[a].to = del.to /\ h[a].via = del.type)})

\* for (const { from, to, type } of changes.deletedEdges) { ... }
RECURSIVE ConfigEdgeDeletions(_, _, _)
ConfigEdgeDeletions(h, g, list) ==
    IF list = <<>> THEN h
    ELSE ConfigEdgeDeletions(ConfigDeleteEdge(h, g, Head(list)), g, Tail(list))

\* A reconciler that switches to the manual layout on every call.
ConfigAlwaysManual(ch) == TRUE

\* hasPositionChanges: set by every iteration of the position loop, whether or
\* not the entry's node type exists.
ConfigHasPositionChanges(ch) == ch.positionChanges # <<>>

\* updatedConfig = { ...updatedConfig, display: { ...updatedConfig.display,
\* layout: 'manual' } }: a new display object and a new document object.
ConfigSetManual(h, g) ==
    LET h1 == Alloc(h, << [layout |-> "manual"] >>)
        h2 == Alloc(h1, << [h1[g] EXCEPT !.display = Len(h1)] >>)
    IN  [heap |-> h2, ref |-> Len(h2)]

\* The edge passes of applyChangesToConfig, in the order of the source:
\* creations, then deletions.
ConfigEdgePasses(h, g, ch) ==
    ConfigEdgeDeletions(ConfigEdgeCreations(h, g, ch.createdEdges), g, ch.deletedEdges)

\* applyChangesToConfig(config, changes): the store after the call and the
\* address of the returned document.
applyChangesToConfig(h, g, ch) ==
    LET copy == ConfigDeepCopy(h, g)
        u    == copy.ref
        h1   == ConfigPositionChanges(copy.heap, u, ch.positionChanges)
        h2   == ConfigNodeUpdates(h1, u, ch.nodeUpdates)
        h3   == ConfigNodeDeletions(h2, u, ch.deletedNodeIds)
        h4   == ConfigEdgePasses(h3, u, ch)
    IN  IF ConfigHasPositionChanges(ch) THEN ConfigSetManual(h4, u)
        ELSE [heap |-> h4, ref |-> u]

\* ------------------------------------------------------------------ inputs

\* The most entries a PendingChanges batch holds, all lists together.
MaxChanges == 2

\* The node ids the renderer names in a batch.
NodeIds == {"A", "B", "C"}

\* A node of a parsed canvas.  B has no pv object, only A has a text property.
NodeOf(id) ==
    [ id |-> id, x |-> 0, y |-> 0, width |-> 100, height |-> 50,
      hasPv   |-> id # "B",
      icon    |-> IF id # "B" THEN "box" ELSE Undefined,
      hasText |-> id = "A",
      text    |-> IF id = "A" THEN "a" ELSE Undefined ]

\* The j-th edge of a parsed canvas.
EdgeOf(e, j) ==
    [ id |-> <<"e", "", "", j>>, fromNode |-> e.from, toNode |-> e.to,
      fromSide |-> Undefined, toSide |-> Undefined, edgeType |-> e.type ]

Link(f, t, ty) == [from |-> f, to |-> t, type |-> ty]

\* The documents the panels are started on: the nodes, the edges between
\* them, whether the canvas has its arrays, and the display layout.  The
\* first canvas has neither a nodes nor an edges array, the second has nodes
\* and no edges array.
DocShapes ==
    LET ab == Link("A", "B", "flow")
        bc == Link("B", "C", "flow")
        ad == Link("A", "B", "dep")
    IN  { [nodes |-> <<>>, edges |-> <<>>, arrays |-> {}, layout |-> "auto"],
          [nodes |-> <<"A", "B">>, edges |-> <<>>, arrays |-> {"nodes"}, layout |-> "auto"],
          [nodes |-> <<"A", "B">>, edges |-> <<ab>>, arrays |-> {"nodes", "edges"},
           layout |-> "auto"],
          [nodes |-> <<"A", "B">>, edges |-> <<ab>>, arrays |-> {"nodes", "edges"},
           layout |-> "manual"],
          [nodes |-> <<"A", "B">>, edges |-> <<ab, ad>>, arrays |-> {"nodes", "edges"},
           layout |-> "auto"],
          [nodes |-> <<"A", "B", "C">>, edges |-> <<ab, bc>>, arrays |-> {"nodes", "edges"},
           layout |-> "auto"] }

\* The canvas document of a shape, as ConfigLoader.parseCanvas returns it.
CanvasOf(shape) ==
    [ hasNodes |-> "nodes" \in shape.arrays,
      nodes    |-> ArrayOf([i \in 1..Len(shape.nodes) |-> NodeOf(shape.nodes[i])],
                          Len(shape.nodes)),
      hasEdges |-> "edges" \in shape.arrays,
      edges    |-> ArrayOf([j \in 1..Len(shape.edges) |-> EdgeOf(shape.edges[j], j)],
                          Len(shape.edges)),
      layout   |-> shape.layout ]

\* The path-based configuration of a shape: a node type per node, an
\* allowedConnections entry per edge.
ConfigOf(shape) ==
    [ nodeTypes |-> ArrayOf([i \in 1..Len(shape.nodes) |->
                       [key   |-> shape.nodes[i],
                        value |-> [icon |-> "box", hasPosition |-> FALSE,
                                   px |-> 0, py |-> 0]]], Len(shape.nodes)),
      allowedConnections |-> ArrayOf([j \in 1..Len(shape.edges) |->
                       [from |-> shape.edges[j].from, to |-> shape.edges[j].to,
                        via |-> shape.edges[j].type]], Len(shape.edges)),
      hasDisplay |-> TRUE,
      layout     |-> shape.layout ]

\* updates.data: absent, or an object carrying an icon and a label.
NoData == [present |-> FALSE, icon |-> Undefined, label |-> Undefined]
SomeData == [present |-> TRUE, icon |-> "star", label |-> "L"]

\* The updates of a nodeUpdates entry: a new type (the new id of the node)
\* with or without data, data alone, or an empty type.
Updates ==
    { [type |-> t, data |-> d] : t \in {"B", "C"}, d \in {NoData, SomeData} }
    \cup { [type |-> Undefined, data |-> SomeData], [type |-> "", data |-> NoData] }

\* The endpoints of the edges the renderer creates and deletes.
EdgeEnds == {<<"A", "B">>, <<"B", "A">>, <<"B", "C">>, <<"A", "C">>}

\* The batch the renderer starts with: no pending change.
EmptyChanges ==
    [ positionChanges |-> <<>>, dimensionChanges |-> <<>>, nodeUpdates |-> <<>>,
      deletedNodeIds |-> <<>>, createdEdges |-> <<>>, deletedEdges |-> <<>> ]

\* Number of entries of a batch.
Size(ch) ==
    Len(ch.positionChanges) + Len(ch.dimensionChanges) + Len(ch.nodeUpdates)
    + Len(ch.deletedNodeIds) + Len(ch.createdEdges) + Len(ch.deletedEdges)

\* What the successive Date.now() calls of one reconciliation can return: the
\* clock never goes back, and it may or may not advance between two calls.
Clocks(n) ==
    { t \in [1..n -> {1000, 1001, 1002, 1003}] :
        /\ n > 0 => t[1] = 1000
        /\ \A k \in 1..(n - 1) : t[k + 1] \in {t[k], t[k] + 1} }

\* ------------------------------------------------------------------ the state machine

\* No panel is mounted while the reconcilers are exercised on their own.
NoPanel ==
    /\ kind = "none"
    /\ tree = <<>>
    /\ host = <<>>
    /\ panel = <<>>
    /\ state = <<>>
    /\ updates = <<>>
    /\ pendingEffects = {}
    /\ calls = <<>>
    /\ edits = <<>>
    /\ written = <<>>
    /\ refs = <<>>
    /\ published = 0
    /\ fileTreeLoadingRef = FALSE
    /\ fileTreeDataRef = <<>>
    /\ skipNextFileChangeRef = FALSE
    /\ closureUnsaved = FALSE

Init ==
    /\ \E shape \in DocShapes :
          LET c == CanvasParse(<<>>, CanvasOf(shape))
              g == ConfigParse(c.heap, ConfigOf(shape))
          IN  heap = g.heap /\ canvas = c.ref /\ config = g.ref
    /\ changes = EmptyChanges
    /\ times = <<>>
    /\ updatedCanvas = NoRef
    /\ updatedConfig = NoRef
    /\ pc = "input"
    /\ NoPanel

\* The renderer records one more pending change in the named list.
Record(list, entry) ==
    /\ pc = "input"
    /\ Size(changes) < MaxChanges
    /\ changes' = [changes EXCEPT ![list] = Append(@, entry)]
    /\ UNCHANGED <<heap, canvas, config, times, updatedCanvas, updatedConfig, pc>>
    /\ UNCHANGED panelVars

\* A node is dragged: positionChanges gets { nodeId, position }.
MoveNode ==
    \E n \in NodeIds :
        Record("positionChanges", [nodeId |-> n, position |-> [x |-> 104, y |-> -25]])

\* A node is resized: dimensionChanges gets { nodeId, dimensions }.
ResizeNode ==
    \E n \in NodeIds :
        Record("dimensionChanges",
               [nodeId |-> n, dimensions |-> [width |-> 120, height |-> 60]])

\* A node is edited: nodeUpdates gets { nodeId, updates: { type?, data? } }.
UpdateNode ==
    \E n \in NodeIds, u \in Updates :
        Record("nodeUpdates", [nodeId |-> n, updates |-> u])

\* A node is deleted: deletedNodeIds gets its id.
DeleteNode ==
    \E n \in NodeIds : Record("deletedNodeIds", n)

\* The node ids the renderer has on screen: those of the loaded document and
\* those the pending node updates have introduced.
ShownIds ==
    {CanvasValue(heap, canvas).nodes[i].id : i \in 1..Len(CanvasValue(heap, canvas).nodes)}
    \cup {changes.nodeUpdates[k].updates.type : k \in 1..Len(changes.nodeUpdates)}

\* The handles an edge between two ends is drawn from and to: a source
\* handle and a target handle of the renderer on opposite sides, or no
\* source handle and a target handle that names no side.
HandlePairs(ends) ==
    IF ends = <<"A", "B">> THEN { <<"right-out", "left">>, <<"top-out", "bottom">> }
    ELSE IF ends = <<"B", "A">> THEN { <<"left-out", "right">>, <<Undefined, "center">> }
    ELSE IF ends = <<"B", "C">> THEN { <<"bottom-out", "top">> }
    ELSE { <<"right-out", "left">> }

\* An edge is drawn between two nodes on screen: createdEdges gets
\* { from, to, type, sourceHandle?, targetHandle? }.
CreateEdge ==
    \E ends \in EdgeEnds :
        \E handles \in HandlePairs(ends) :
            /\ ends[1] \in ShownIds
            /\ ends[2] \in ShownIds
            /\ Record("createdEdges",
                      [from |-> ends[1], to |-> ends[2], type |-> "flow",
                       sourceHandle |-> handles[1], targetHandle |-> handles[2]])

\* An edge is deleted: deletedEdges gets { from, to, type }.
DeleteEdge ==
    \E ends \in EdgeEnds :
        Record("deletedEdges", [from |-> ends[1], to |-> ends[2], type |-> "flow"])

\* Save: the batch is reconciled into the canvas by applyChangesToCanvas and
\* into the path-based configuration by applyChangesToConfig.
Reconcile ==
    /\ pc = "input"
    /\ \E nows \in Clocks(Len(changes.createdEdges)) :
          LET rc == applyChangesToCanvas(heap, canvas, changes, nows)
              rg == applyChangesToConfig(rc.heap, config, changes)
          IN  /\ heap' = rg.heap
              /\ updatedCanvas' = rc.ref
              /\ updatedConfig' = rg.ref
              /\ times' = nows
    /\ pc' = "done"
    /\ UNCHANGED <<canvas, config, changes>>
    /\ UNCHANGED panelVars

Next ==
    \/ MoveNode
    \/ ResizeNode
    \/ UpdateNode
    \/ DeleteNode
    \/ CreateEdge
    \/ DeleteEdge
    \/ Reconcile

Spec == Init /\ [][Next]_vars

\* ------------------------------------------------------------------ reading the documents

\* The document passed in and the document returned, as values.
Original == CanvasValue(heap, canvas)
Returned == CanvasValue(heap, updatedCanvas)
OriginalConfig == ConfigValue(heap, config)
ReturnedConfig == ConfigValue(heap, updatedConfig)

\* How many items of a sequence are in the set hits.
Count(s, hits) == Cardinality({i \in 1..Len(s) : s[i] \in hits})

NodeIdsOf(doc) == {doc.nodes[i].id : i \in 1..Len(doc.nodes)}
KeysOf(cfg) == {cfg.nodeTypes[i].key : i \in 1..Len(cfg.nodeTypes)}

\* An edge of a canvas / a connection of a configuration carries the triple tr.
EdgeIs(e, tr) == e.fromNode = tr.from /\ e.toNode = tr.to /\ e.edgeType = tr.type
ConnIs(conn, tr) == conn.from = tr.from /\ conn.to = tr.to /\ conn.via = tr.type

\* The batch has entries in the named lists only.
OnlyLists(ch, lists) ==
    \A l \in DOMAIN ch : l \notin lists => ch[l] = <<>>

\* A node update that asks for a rename: a non-empty type other than the node's id.
AsksRename(upd) == Truthy(upd.updates.type) /\ upd.updates.type # upd.nodeId

\* ------------------------------------------------------------------ C1

(* C1: applyChangesToCanvas and applyChangesToConfig never mutate the document
   passed in: no step changes an object that exists before it, so the values
   reachable from `canvas` and `config` (nodes, edges / connections, display
   settings) are the same after the call as before it. *)
C1_OriginalNeverMutated ==
    [][ /\ \A a \in 1..Len(heap) : heap'[a] = heap[a]
        /\ CanvasValue(heap', canvas') = CanvasValue(heap, canvas)
        /\ ConfigValue(heap', config') = ConfigValue(heap, config) ]_vars

\* A call whose edits changed nodes and edges of both returned documents.
C1_Witness ==
    /\ pc = "done"
    /\ Returned.nodes # Original.nodes
    /\ Returned.edges # Original.edges
    /\ ReturnedConfig.nodeTypes # OriginalConfig.nodeTypes
    /\ ReturnedConfig.allowedConnections # OriginalConfig.allowedConnections
    /\ ReturnedConfig.layout # OriginalConfig.layout

\* ------------------------------------------------------------------ C2

(* C2: referential integrity of applyChangesToCanvas: when every edge of the
   original names existing nodes, every edge of the returned document has its
   fromNode and its toNode among the ids of the returned nodes. *)
C2_ReferentialIntegrity ==
    (/\ pc = "done"
     /\ \A e \in Range(Original.edges) :
           e.fromNode \in NodeIdsOf(Original) /\ e.toNode \in NodeIdsOf(Original))
    => \A e \in Range(Returned.edges) :
           e.fromNode \in NodeIdsOf(Returned) /\ e.toNode \in NodeIdsOf(Returned)

\* ------------------------------------------------------------------ C3

\* The canvas store as the node-update loop finds it: the copy after the
\* position and dimension loops.
C3_CanvasBeforeUpdates ==
    LET copy == CanvasDeepCopy(heap, canvas)
    IN  [ heap |-> CanvasDimensionChanges(
                       CanvasPositionChanges(copy.heap, copy.ref, changes.positionChanges),
                       copy.ref, changes.dimensionChanges),
          ref  |-> copy.ref ]

\* Each renaming entry of nodeUpdates, at the moment it is applied to the canvas.
C3_CanvasStep ==
    LET start == C3_CanvasBeforeUpdates
        u     == start.ref
        list  == changes.nodeUpdates
    IN  \A k \in 1..Len(list) :
          LET hb   == CanvasNodeUpdates(start.heap, u, SubSeq(list, 1, k - 1))
              ha   == CanvasNodeUpdate(hb, u, list[k])
              node == FindNode(hb, u, list[k].nodeId)
          IN  (node # NoRef /\ AsksRename(list[k])) =>
                /\ ha[node].id = list[k].updates.type
                /\ \A e \in Range(Items(hb, hb[u].edges)) :
                      /\ hb[e].fromNode = list[k].nodeId
                            => ha[e].fromNode = list[k].updates.type
                      /\ hb[e].toNode = list[k].nodeId
                            => ha[e].toNode = list[k].updates.type
                      /\ ha[e].fromNode # list[k].nodeId
                      /\ ha[e].toNode # list[k].nodeId

\* Each renaming entry of nodeUpdates, at the moment it is applied to the configuration.
C3_ConfigStep ==
    LET copy  == ConfigDeepCopy(heap, config)
        u     == copy.ref
        start == ConfigPositionChanges(copy.heap, u, changes.positionChanges)
        list  == changes.nodeUpdates
    IN  \A k \in 1..Len(list) :
          LET hb    == ConfigNodeUpdates(start, u, SubSeq(list, 1, k - 1))
              ha    == ConfigNodeUpdate(hb, u, list[k])
              cb    == ConfigValue(hb, u).allowedConnections
              ca    == ConfigValue(ha, u).allowedConnections
          IN  (Lookup(hb, hb[u].nodeTypes, list[k].nodeId) # NoRef /\ AsksRename(list[k])) =>
                /\ Lookup(ha, ha[u].nodeTypes, list[k].nodeId) = NoRef
                /\ Lookup(ha, ha[u].nodeTypes, list[k].updates.type)
                      = Lookup(hb, hb[u].nodeTypes, list[k].nodeId)
                /\ Len(ca) = Len(cb)
                /\ \A j \in 1..Len(cb) :
                      /\ cb[j].from = list[k].nodeId => ca[j].from = list[k].updates.type
                      /\ cb[j].to = list[k].nodeId => ca[j].to = list[k].updates.type
                      /\ ca[j].from # list[k].nodeId
                      /\ ca[j].to # list[k].nodeId

\* A batch with a single node update, a rename of a node of the original:
\* in the returned documents the old id is gone from the nodes, and every
\* edge kept from the original that named the old id names the new one.
C3_WholeCall ==
    (/\ Len(changes.nodeUpdates) = 1
     /\ AsksRename(changes.nodeUpdates[1])
     /\ changes.nodeUpdates[1].nodeId \in NodeIdsOf(Original))
    => LET old == changes.nodeUpdates[1].nodeId
           new == changes.nodeUpdates[1].updates.type
       IN  /\ old \notin NodeIdsOf(Returned)
           /\ new \notin Range(changes.deletedNodeIds) => new \in NodeIdsOf(Returned)
           /\ \A eo \in Range(Original.edges), er \in Range(Returned.edges) :
                 er.id = eo.id =>
                    /\ eo.fromNode = old => er.fromNode = new
                    /\ eo.toNode = old => er.toNode = new
                    /\ eo.fromNode # old => er.fromNode = eo.fromNode
                    /\ eo.toNode # old => er.toNode = eo.toNode
           /\ old \notin KeysOf(ReturnedConfig)
           /\ new \notin Range(changes.deletedNodeIds) => new \in KeysOf(ReturnedConfig)
           /\ changes.createdEdges = <<>> =>
                 \A conn \in Range(ReturnedConfig.allowedConnections) :
                     conn.from # old /\ conn.to # old
           /\ OnlyLists(changes, {"nodeUpdates", "positionChanges", "dimensionChanges"}) =>
                 /\ Len(ReturnedConfig.allowedConnections)
                       = Len(OriginalConfig.allowedConnections)
                 /\ \A j \in 1..Len(OriginalConfig.allowedConnections) :
                       LET co == OriginalConfig.allowedConnections[j]
                           cr == ReturnedConfig.allowedConnections[j]
                       IN  /\ cr.from = IF co.from = old THEN new ELSE co.from
                           /\ cr.to = IF co.to = old THEN new ELSE co.to

(* C3: rename propagation: when a node update carries a (non-empty) type that
   differs from the id of an existing node, the reconciler gives the node the
   new id and rewrites every edge (canvas) or allowedConnections entry
   (path-based) whose from or to endpoint was the old id, so that every edge
   that named the old id names the new id and none still names the old id. *)
C3_RenamePropagation ==
    pc = "done" => C3_CanvasStep /\ C3_ConfigStep /\ C3_WholeCall

\* A rename of A, the source of an edge, reconciled: the edge kept from the
\* original starts at the new id in both documents.
C3_Witness ==
    /\ pc = "done"
    /\ Len(changes.nodeUpdates) = 1
    /\ changes.nodeUpdates[1].nodeId = "A"
    /\ changes.nodeUpdates[1].updates.type = "C"
    /\ Len(Original.edges) > 0
    /\ Original.edges[1].fromNode = "A"
    /\ Len(Returned.edges) > 0
    /\ Returned.edges[1].id = Original.edges[1].id
    /\ Returned.edges[1].fromNode = "C"
    /\ Len(ReturnedConfig.allowedConnections) > 0
    /\ ReturnedConfig.allowedConnections[1].from = "C"
    /\ "C" \in NodeIdsOf(Returned)
    /\ "C" \in KeysOf(ReturnedConfig)

\* ------------------------------------------------------------------ C4

(* C4: cascade deletion: for every id of deletedNodeIds the returned document
   holds no node with that id and no edge (allowedConnections entry) with that
   id as an endpoint; and a batch of node deletions alone keeps, in order,
   every node and edge that touches no deleted id. *)
C4_CascadeDeletion ==
    pc = "done" =>
      /\ \A id \in Range(changes.deletedNodeIds) :
            /\ id \notin NodeIdsOf(Returned)
            /\ \A e \in Range(Returned.edges) : e.fromNode # id /\ e.toNode # id
            /\ id \notin KeysOf(ReturnedConfig)
            /\ \A conn \in Range(ReturnedConfig.allowedConnections) :
                  conn.from # id /\ conn.to # id
      /\ OnlyLists(changes, {"deletedNodeIds"}) =>
            LET gone == Range(changes.deletedNodeIds)
            IN  /\ Returned.nodes = SelectSeq(Original.nodes, LAMBDA n : n.id \notin gone)
                /\ Returned.edges = SelectSeq(Original.edges,
                      LAMBDA e : e.fromNode \notin gone /\ e.toNode \notin gone)
                /\ ReturnedConfig.nodeTypes = SelectSeq(OriginalConfig.nodeTypes,
                      LAMBDA t : t.key \notin gone)
                /\ ReturnedConfig.allowedConnections =
                      SelectSeq(OriginalConfig.allowedConnections,
                          LAMBDA conn : conn.from \notin gone /\ conn.to \notin gone)

\* ------------------------------------------------------------------ C5

\* The batch deletes the triple and creates it exactly once.
DeletesAndCreatesOnce(tr) ==
    /\ \E d \in Range(changes.deletedEdges) : d = tr
    /\ Count(changes.createdEdges,
             {cr \in Range(changes.createdEdges) :
                 cr.from = tr.from /\ cr.to = tr.to /\ cr.type = tr.type}) = 1

\* The batch is the deletion and the creation of the triple and nothing else.
OnlyDeletesAndCreates(tr) ==
    /\ OnlyLists(changes, {"deletedEdges", "createdEdges"})
    /\ changes.deletedEdges = <<tr>>
    /\ Len(changes.createdEdges) = 1
    /\ DeletesAndCreatesOnce(tr)

(* C5: deletion before creation in applyChangesToCanvas: a batch that deletes
   (A,B,flow) and creates (A,B,flow) returns exactly one edge from A to B of
   type flow; on a canvas that held exactly that one edge the returned
   document holds exactly one edge, the created one. *)
C5_CanvasDeleteThenCreate ==
    pc = "done" =>
      \A f \in NodeIds, t \in NodeIds :
        LET tr == Link(f, t, "flow")
        IN  /\ DeletesAndCreatesOnce(tr) =>
                  Count(Returned.edges, {e \in Range(Returned.edges) : EdgeIs(e, tr)}) = 1
            /\ (/\ OnlyDeletesAndCreates(tr)
                /\ Len(Original.edges) = 1
                /\ EdgeIs(Original.edges[1], tr))
               => /\ Len(Returned.edges) = 1
                  /\ EdgeIs(Returned.edges[1], tr)
                  /\ Returned.edges[1].id # Original.edges[1].id

\* The canvas held the single edge A->B of type flow; the batch deleted and
\* created (A,B,flow); the call has returned.
C5_Witness ==
    /\ pc = "done"
    /\ Len(Original.edges) = 1
    /\ EdgeIs(Original.edges[1], Link("A", "B", "flow"))
    /\ OnlyDeletesAndCreates(Link("A", "B", "flow"))
    /\ Len(Returned.edges) = 1

\* ------------------------------------------------------------------ C6

(* C6: deletion before creation in applyChangesToConfig: on a configuration
   whose allowedConnections is the single entry (A,B,flow), a batch that
   deletes (A,B,flow) and creates (A,B,flow) returns a configuration with
   exactly one allowedConnections entry, (A,B,flow). *)
C6_ConfigDeleteThenCreate ==
    (/\ pc = "done"
     /\ Len(OriginalConfig.allowedConnections) = 1
     /\ ConnIs(OriginalConfig.allowedConnections[1], Link("A", "B", "flow"))
     /\ OnlyDeletesAndCreates(Link("A", "B", "flow")))
    => /\ Len(ReturnedConfig.allowedConnections) = 1
       /\ ConnIs(ReturnedConfig.allowedConnections[1], Link("A", "B", "flow"))

\* ------------------------------------------------------------------ C7

(* C7: edge creation is idempotent in applyChangesToCanvas: for every triple a
   createdEdges entry carries, the returned document holds no more edges with
   that (from, to, type) than the original did, or a single one when the
   original had none. *)
C7_CanvasCreationIdempotent ==
    pc = "done" =>
      \A cr \in Range(changes.createdEdges) :
        LET tr     == Link(cr.from, cr.to, cr.type)
            before == Count(Original.edges, {e \in Range(Original.edges) : EdgeIs(e, tr)})
            after  == Count(Returned.edges, {e \in Range(Returned.edges) : EdgeIs(e, tr)})
        IN  after <= IF before = 0 THEN 1 ELSE before

\* ------------------------------------------------------------------ C8

(* C8: saved positions force manual layout: when applyChangesToCanvas applies
   a position change to an existing node, the returned canvas has its display
   layout set to 'manual'. *)
C8_CanvasPositionsForceManual ==
    (/\ pc = "done"
     /\ \E p \in Range(changes.positionChanges) : p.nodeId \in NodeIdsOf(Original))
    => Returned.layout = "manual"

\* ------------------------------------------------------------------ C9

\* The batch holds position, dimension and node-update entries only, and each
\* names a node the document does not have.
OnlyMissingNodeEntries ==
    /\ OnlyLists(changes, {"positionChanges", "dimensionChanges", "nodeUpdates"})
    /\ \A p \in Range(changes.positionChanges) :
          p.nodeId \notin NodeIdsOf(Original) \cup KeysOf(OriginalConfig)
    /\ \A d \in Range(changes.dimensionChanges) :
          d.nodeId \notin NodeIdsOf(Original) \cup KeysOf(OriginalConfig)
    /\ \A u \in Range(changes.nodeUpdates) :
          u.nodeId \notin NodeIdsOf(Original) \cup KeysOf(OriginalConfig)

(* C9: changes that name a missing node are no-ops: a batch made only of
   position, dimension and node-update entries whose nodeId matches no node
   returns, from applyChangesToCanvas and from applyChangesToConfig, a
   document equal to the original (nodes, edges / connections, display). *)
C9_MissingNodeIsNoOp ==
    (pc = "done" /\ OnlyMissingNodeEntries)
    => Returned = Original /\ ReturnedConfig = OriginalConfig

\* ------------------------------------------------------------------ C10

\* The node ids of a document are pairwise distinct.
UniqueNodeIds(doc) ==
    \A i, j \in 1..Len(doc.nodes) : doc.nodes[i].id = doc.nodes[j].id => i = j

(* C10: node ids stay unique: when the node ids of the original canvas are
   pairwise distinct, so are the node ids of the document applyChangesToCanvas
   returns, whatever the batch renames. *)
C10_NodeIdsStayUnique ==
    (pc = "done" /\ UniqueNodeIds(Original)) => UniqueNodeIds(Returned)

\* The ids of the edges of a document are pairwise distinct.
UniqueEdgeIds(doc) ==
    \A i, j \in 1..Len(doc.edges) : doc.edges[i].id = doc.edges[j].id => i = j

(* C11: for every canvas whose edge ids are pairwise distinct and every     *)
(* batch, the edges of the document applyChangesToCanvas returns have       *)
(* pairwise distinct ids: an edge created from createdEdges gets an id that *)
(* no edge of the document and no other edge created by the call has.       *)
C11_CreatedEdgeIdsUnique ==
    (pc = "done" /\ UniqueEdgeIds(Original)) => UniqueEdgeIds(Returned)

\* ================================================================== discovery
\* ConfigLoader.findConfigs and TraceLoader.findTraceFiles work on strings:
\* a string is modelled as the sequence of its characters, and the value
\* undefined as a sequence whose only item is no character.

Absent == <<"undefined">>

\* JavaScript truthiness of a string-or-undefined value.
Present(s) == s # Absent /\ s # <<>>

\* a || b for string-or-undefined values.
OrElse(a, b) == IF Present(a) THEN a ELSE b

\* String.prototype.startsWith / endsWith.
StartsWith(s, prefix) ==
    Len(s) >= Len(prefix) /\ SubSeq(s, 1, Len(prefix)) = prefix

EndsWith(s, suffix) ==
    Len(s) >= Len(suffix) /\ SubSeq(s, Len(s) - Len(suffix) + 1, Len(s)) = suffix

\* s.replace(/suffix$/, ''): the string without the suffix, if it ends with it.
StripSuffix(s, suffix) ==
    IF EndsWith(s, suffix) THEN SubSeq(s, 1, Len(s) - Len(suffix)) ELSE s

\* String.prototype.split on a one-character separator: the pieces between
\* the separators, empty pieces included.
RECURSIVE Split(_, _)
Split(s, sep) ==
    IF \A i \in 1..Len(s) : s[i] # sep THEN <<s>>
    ELSE LET i == CHOOSE k \in 1..Len(s) :
                      s[k] = sep /\ \A j \in 1..(k - 1) : s[j] # sep
         IN  <<SubSeq(s, 1, i - 1)>> \o Split(SubSeq(s, i + 1, Len(s)), sep)

\* Array.prototype.join.
RECURSIVE Join(_, _)
Join(parts, sep) ==
    IF parts = <<>> THEN <<>>
    ELSE IF Len(parts) = 1 THEN parts[1]
    ELSE parts[1] \o sep \o Join(Tail(parts), sep)

LowerCase == <<"a", "b", "c", "d", "e", "f", "g", "h", "i", "j", "k", "l", "m", "n", "o", "p", "q", "r", "s", "t", "u", "v", "w", "x", "y", "z">>
UpperCase == <<"A", "B", "C", "D", "E", "F", "G", "H", "I", "J", "K", "L", "M", "N", "O", "P", "Q", "R", "S", "T", "U", "V", "W", "X", "Y", "Z">>

\* String.prototype.toUpperCase on one character.
toUpperCase(ch) ==
    IF \E i \in 1..Len(LowerCase) : LowerCase[i] = ch
    THEN UpperCase[CHOOSE i \in 1..Len(LowerCase) : LowerCase[i] = ch]
    ELSE ch

\* word.charAt(0).toUpperCase() + word.slice(1)
Capitalise(word) ==
    IF word = <<>> THEN <<>> ELSE <<toUpperCase(word[1])>> \o Tail(word)

\* .split('-').map(word => ...).join(' '): kebab-case to Title Case.
TitleCase(s) ==
    LET words == Split(s, "-")
    IN  Join(ArrayOf([i \in 1..Len(words) |-> Capitalise(words[i])], Len(words)), <<" ">>)

DotCanvas == <<".", "c", "a", "n", "v", "a", "s">>
DotCanvasJson == <<".", "c", "a", "n", "v", "a", "s", ".", "j", "s", "o", "n">>
VGC_FOLDER == <<".", "v", "g", "c">>

isCanvasFile(filename) == EndsWith(filename, DotCanvas)

getConfigNameFromFilename(filename) == StripSuffix(filename, DotCanvas)

\* The ConfigFile findConfigs pushes for a file, <<>> for a file it skips.
ConfigFileOf(file) ==
    LET filePath == OrElse(file.relativePath, OrElse(file.path, <<>>))
        fileName == OrElse(file.name, <<>>)
    IN  IF StartsWith(filePath, VGC_FOLDER \o <<"/">>) /\ isCanvasFile(fileName)
        THEN << [ id     |-> getConfigNameFromFilename(fileName),
                  name   |-> TitleCase(getConfigNameFromFilename(fileName)),
                  path   |-> filePath,
                  source |-> "folder" ] >>
        ELSE <<>>

\* ConfigLoader.findConfigs: the files are visited in order, the matching ones
\* are pushed in that order.
RECURSIVE findConfigs(_)
findConfigs(files) ==
    IF files = <<>> THEN <<>>
    ELSE ConfigFileOf(Head(files)) \o findConfigs(Tail(files))

\* The fixed parts of the three TRACE_FILE_PATTERNS.
PackagesSlash == <<"p", "a", "c", "k", "a", "g", "e", "s", "/">>
TracesSlash == <<"_", "_", "t", "r", "a", "c", "e", "s", "_", "_", "/">>
PvTracesSlash == <<".", "p", "r", "i", "n", "c", "i", "p", "a", "l", "-", "v", "i", "e", "w", "s", "/", "_", "_", "t", "r", "a", "c", "e", "s", "_", "_", "/">>

\* ^prefix(.+)\.canvas\.json$ : the captured group, Absent when the path
\* does not match.  The group is at least one character long.
MatchTail(path, prefix) ==
    IF /\ StartsWith(path, prefix)
       /\ EndsWith(path, DotCanvasJson)
       /\ Len(path) >= Len(prefix) + 1 + Len(DotCanvasJson)
    THEN SubSeq(path, Len(prefix) + 1, Len(path) - Len(DotCanvasJson))
    ELSE Absent

\* TRACE_FILE_PATTERNS[0]: ^packages\/([^/]+)\/__traces__\/(.+)\.canvas\.json$
\* The first group has no slash, so it is the text up to the next slash.
MatchPackages(path) ==
    LET rest  == SubSeq(path, Len(PackagesSlash) + 1, Len(path))
        k     == IF \E i \in 1..Len(rest) : rest[i] = "/"
                 THEN CHOOSE i \in 1..Len(rest) :
                          rest[i] = "/" /\ \A j \in 1..(i - 1) : rest[j] # "/"
                 ELSE 0
        after == IF k = 0 THEN <<>> ELSE SubSeq(rest, k + 1, Len(rest))
    IN  IF StartsWith(path, PackagesSlash) /\ k > 1
           /\ MatchTail(after, TracesSlash) # Absent
        THEN [matched |-> TRUE, packageName |-> SubSeq(rest, 1, k - 1),
              baseName |-> MatchTail(after, TracesSlash)]
        ELSE [matched |-> FALSE, packageName |-> Absent, baseName |-> Absent]

\* tracePath.match(/(?:packages\/([^/]+)\/)?__traces__\/(.+)\.canvas\.json$/)
\* of the 'trace:load' handler.  The pattern is not anchored at the start:
\* the match is searched from every position of the path, leftmost first,
\* and at a position the optional packages part is tried first.
RECURSIVE MatchTracePath(_, _)
MatchTracePath(tracePath, from) ==
    IF from > Len(tracePath)
    THEN [matched |-> FALSE, packageName |-> Absent, baseName |-> Absent]
    ELSE LET rest == SubSeq(tracePath, from, Len(tracePath))
         IN  IF MatchPackages(rest).matched THEN MatchPackages(rest)
             ELSE IF MatchTail(rest, TracesSlash) # Absent
             THEN [matched |-> TRUE, packageName |-> Absent,
                   baseName |-> MatchTail(rest, TracesSlash)]
             ELSE MatchTracePath(tracePath, from + 1)

\* packageName ? `${packageName}-${baseName}` : baseName
TraceIdOfMatch(pathMatch) ==
    IF Present(pathMatch.packageName)
    THEN pathMatch.packageName \o <<"-">> \o pathMatch.baseName
    ELSE pathMatch.baseName

\* getTraceNameFromFilename
getTraceNameFromFilename(filename) == TitleCase(StripSuffix(filename, DotCanvasJson))

\* filePath.split('/').pop()
LastSegment(path) == Split(path, "/")[Len(Split(path, "/"))]

\* The TraceFile findTraceFiles pushes for a file, <<>> for a file no pattern
\* matches.  The patterns are tried in order and the first match decides.
TraceFileOf(file) ==
    LET filePath == OrElse(file.relativePath, OrElse(file.path, <<>>))
        fileName == OrElse(file.name, OrElse(LastSegment(filePath), <<>>))
        pkg      == MatchPackages(filePath)
        pv       == MatchTail(filePath, PvTracesSlash)
        direct   == MatchTail(filePath, TracesSlash)
        name     == getTraceNameFromFilename(fileName)
    IN  IF pkg.matched
        THEN << [ id   |-> pkg.packageName \o <<"-">> \o pkg.baseName,
                  name |-> name, path |-> filePath,
                  packageName |-> pkg.packageName ] >>
        ELSE IF pv # Absent
        THEN << [ id   |-> <<"p", "v", "-">> \o pv,
                  name |-> name, path |-> filePath, packageName |-> Absent ] >>
        ELSE IF direct # Absent
        THEN << [ id   |-> direct,
                  name |-> name, path |-> filePath, packageName |-> Absent ] >>
        ELSE <<>>

RECURSIVE TraceFilesOf(_)
TraceFilesOf(files) ==
    IF files = <<>> THEN <<>>
    ELSE TraceFileOf(Head(files)) \o TraceFilesOf(Tail(files))

\* The collation order of the characters: white space, punctuation, letters.
Collation == <<" ", "_", "-", ".">> \o LowerCase

\* Primary weight of a character: its place in the collation order, the case
\* of a letter left aside.
Weight(ch) ==
    LET low == IF \E i \in 1..Len(UpperCase) : UpperCase[i] = ch
               THEN LowerCase[CHOOSE i \in 1..Len(UpperCase) : UpperCase[i] = ch]
               ELSE ch
    IN  CHOOSE i \in 1..Len(Collation) : Collation[i] = low

\* Case weight: a lower-case letter sorts before its upper-case form.
CaseWeight(ch) == IF \E i \in 1..Len(UpperCase) : UpperCase[i] = ch THEN 1 ELSE 0

\* Lexicographic comparison of two strings by a weight: -1, 0 or 1.
RECURSIVE CompareBy(_, _, _)
CompareBy(a, b, w) ==
    IF a = <<>> /\ b = <<>> THEN 0
    ELSE IF a = <<>> THEN -1
    ELSE IF b = <<>> THEN 1
    ELSE IF w[a[1]] < w[b[1]] THEN -1
    ELSE IF w[a[1]] > w[b[1]] THEN 1
    ELSE CompareBy(Tail(a), Tail(b), w)

\* String.prototype.localeCompare: the letters decide first, the case of the
\* letters decides between strings that differ in case only.
localeCompare(a, b) ==
    LET chars   == Range(a) \cup Range(b)
        primary == CompareBy(a, b, [ch \in chars |-> Weight(ch)])
    IN  IF primary # 0 THEN primary
        ELSE CompareBy(a, b, [ch \in chars |-> CaseWeight(ch)])

\* The comparator findTraceFiles sorts with.
TraceCompare(a, b) ==
    IF Present(a.packageName) /\ Present(b.packageName)
    THEN LET pkgCompare == localeCompare(a.packageName, b.packageName)
         IN  IF pkgCompare # 0 THEN pkgCompare ELSE localeCompare(a.name, b.name)
    ELSE IF Present(a.packageName) THEN -1
    ELSE IF Present(b.packageName) THEN 1
    ELSE localeCompare(a.name, b.name)

\* Array.prototype.sort is stable: an item goes behind the items that do not
\* compare greater than it, so items that compare equal keep their order.
InsertSorted(sorted, item) ==
    LET behind == {i \in 1..Len(sorted) : TraceCompare(sorted[i], item) <= 0}
        k      == IF behind = {} THEN 0
                  ELSE CHOOSE i \in behind : \A j \in behind : j <= i
    IN  SubSeq(sorted, 1, k) \o <<item>> \o SubSeq(sorted, k + 1, Len(sorted))

RECURSIVE SortTraces(_, _)
SortTraces(sorted, rest) ==
    IF rest = <<>> THEN sorted
    ELSE SortTraces(InsertSorted(sorted, Head(rest)), Tail(rest))

\* TraceLoader.findTraceFiles: the matching files, sorted.
findTraceFiles(files) == SortTraces(<<>>, TraceFilesOf(files))

\* ================================================================== the host
\* The file records of the fileTree slice.  A record has a path, a
\* relativePath and a name, each of which the host may leave out.

FileRecord(path, relativePath, name) ==
    [path |-> path, relativePath |-> relativePath, name |-> name]

\* .vgc/a.canvas
FileVgcA ==
    LET p == <<".", "v", "g", "c", "/", "a", ".", "c", "a", "n", "v", "a", "s">>
    IN  FileRecord(p, p, LastSegment(p))

\* .vgc/b-a.canvas
FileVgcBA ==
    LET p == <<".", "v", "g", "c", "/", "b", "-", "a", ".", "c", "a", "n", "v", "a", "s">>
    IN  FileRecord(p, p, LastSegment(p))

\* .vgc/x/a.canvas (no relativePath)
FileVgcSubA ==
    LET p == <<".", "v", "g", "c", "/", "x", "/", "a", ".", "c", "a", "n", "v", "a", "s">>
    IN  FileRecord(p, Absent, LastSegment(p))

\* a.canvas
FileRootA ==
    LET p == <<"a", ".", "c", "a", "n", "v", "a", "s">>
    IN  FileRecord(p, p, LastSegment(p))

\* packages/b/__traces__/a.canvas.json
FilePkgB_A ==
    LET p == <<"p", "a", "c", "k", "a", "g", "e", "s", "/", "b", "/", "_", "_", "t", "r", "a", "c", "e", "s", "_", "_", "/", "a", ".", "c", "a", "n", "v", "a", "s", ".", "j", "s", "o", "n">>
    IN  FileRecord(p, p, LastSegment(p))

\* __traces__/b.canvas.json (no relativePath) (no name)
FileBare_B ==
    LET p == <<"_", "_", "t", "r", "a", "c", "e", "s", "_", "_", "/", "b", ".", "c", "a", "n", "v", "a", "s", ".", "j", "s", "o", "n">>
    IN  FileRecord(p, Absent, Absent)

\* packages/a/__traces__/b-a.canvas.json
FilePkgA_BA ==
    LET p == <<"p", "a", "c", "k", "a", "g", "e", "s", "/", "a", "/", "_", "_", "t", "r", "a", "c", "e", "s", "_", "_", "/", "b", "-", "a", ".", "c", "a", "n", "v", "a", "s", ".", "j", "s", "o", "n">>
    IN  FileRecord(p, p, LastSegment(p))

\* packages/a-b/__traces__/a.canvas.json
FilePkgAB_A ==
    LET p == <<"p", "a", "c", "k", "a", "g", "e", "s", "/", "a", "-", "b", "/", "_", "_", "t", "r", "a", "c", "e", "s", "_", "_", "/", "a", ".", "c", "a", "n", "v", "a", "s", ".", "j", "s", "o", "n">>
    IN  FileRecord(p, p, LastSegment(p))

\* .principal-views/__traces__/a.canvas.json
FilePv_A ==
    LET p == <<".", "p", "r", "i", "n", "c", "i", "p", "a", "l", "-", "v", "i", "e", "w", "s", "/", "_", "_", "t", "r", "a", "c", "e", "s", "_", "_", "/", "a", ".", "c", "a", "n", "v", "a", "s", ".", "j", "s", "o", "n">>
    IN  FileRecord(p, p, LastSegment(p))

\* The file lists the host serves: none, one that matches no convention,
\* configurations, traces, and both.
FileLists ==
    { <<>>,
      <<FileRootA>>,
      <<FileVgcA, FileVgcBA>>,
      <<FileVgcBA, FileRootA, FileVgcA>>,
      <<FileVgcA, FileVgcSubA>>,
      <<FileBare_B, FilePkgB_A>>,
      <<FilePkgB_A, FilePkgA_BA, FileBare_B>>,
      <<FilePkgA_BA, FilePkgAB_A>>,
      <<FilePv_A, FileBare_B, FileVgcA>> }

\* The states of the fileTree slice: no slice, a slice that is still loading,
\* a slice whose data has no allFiles, and a loaded slice with a file list.
TreeOf(hasSlice, loading, hasAllFiles, allFiles) ==
    [hasSlice |-> hasSlice, loading |-> loading,
     hasAllFiles |-> hasAllFiles, allFiles |-> allFiles]

TreeStates ==
    { TreeOf(FALSE, FALSE, FALSE, <<>>),
      TreeOf(TRUE, TRUE, FALSE, <<>>),
      TreeOf(TRUE, FALSE, FALSE, <<>>) }
    \cup { TreeOf(TRUE, FALSE, TRUE, files) : files \in FileLists }

\* The hosts: one that provides everything, and one per missing capability.
\* disk tells what the files of the repository hold: "any" content on a
\* disk that may fail, or each its "documents" on a disk that does not.
HostOf(readFile, writeFile, repositoryPath) ==
    [readFile |-> readFile, writeFile |-> writeFile, repositoryPath |-> repositoryPath,
     disk |-> "any"]

\* A host that provides everything, over a repository whose canvas files
\* hold well-formed documents and whose reads and writes succeed.
SoundHost == [HostOf(TRUE, TRUE, TRUE) EXCEPT !.disk = "documents"]

Hosts ==
    { HostOf(TRUE, TRUE, TRUE), HostOf(FALSE, TRUE, TRUE),
      HostOf(TRUE, FALSE, TRUE), HostOf(TRUE, TRUE, FALSE) }

\* ================================================================== content
\* null, and a value that is not null.
Null == <<>>
Some(x) == <<x>>

\* The text of a file: the empty string, text that is no JSON (with the
\* message JSON.parse throws for it), or the JSON text of a value.
EmptyText == [form |-> "empty", message |-> <<"Unexpected end of JSON input">>,
              value |-> CanvasOf([nodes |-> <<>>, edges |-> <<>>, arrays |-> {},
                                  layout |-> "auto"])]

MalformedText == [EmptyText EXCEPT !.form = "malformed",
                                   !.message = <<"Unexpected token">>]

\* JSON.stringify(value, null, 2)
JSONstringify(value) == [form |-> "json", message |-> <<>>, value |-> value]

\* JSON.parse(text): the value, or a SyntaxError with its message.
JSONparse(text) ==
    IF text.form = "json"
    THEN [ok |-> TRUE, value |-> text.value, message |-> <<>>]
    ELSE [ok |-> FALSE, value |-> text.value, message |-> text.message]

\* An Error: its message is a fixed text followed by a detail (an id, the
\* message of an underlying error).  saveAllChanges wraps the message in
\* 'Failed to save: '.
Error(text, detail) == [wrap |-> "", text |-> text, detail |-> detail]

\* ConfigLoader.parseCanvas
parseCanvas(content) ==
    LET r == JSONparse(content)
    IN  IF r.ok THEN [ok |-> TRUE, canvas |-> r.value, error |-> Null]
        ELSE [ok |-> FALSE, canvas |-> r.value,
              error |-> Some(Error("Failed to parse canvas JSON: ", r.message))]

\* TraceLoader.parseTraceCanvas
parseTraceCanvas(content) ==
    LET r == JSONparse(content)
    IN  IF r.ok THEN [ok |-> TRUE, canvas |-> r.value, error |-> Null]
        ELSE [ok |-> FALSE, canvas |-> r.value,
              error |-> Some(Error("Failed to parse trace canvas JSON: ", r.message))]

\* The documents on disk: a JSON object without nodes and edges, and a full
\* canvas per file (the file .vgc/a.canvas and the trace a of package b hold
\* two nodes and an edge, every other file three nodes and two edges).
IncompleteDoc == CanvasOf([nodes |-> <<>>, edges |-> <<>>, arrays |-> {}, layout |-> "auto"])

DocAt(path) ==
    IF path \in {FileVgcA.path, FilePkgB_A.path}
    THEN CanvasOf([nodes |-> <<"A", "B">>, edges |-> <<Link("A", "B", "flow")>>,
                   arrays |-> {"nodes", "edges"}, layout |-> "auto"])
    ELSE CanvasOf([nodes |-> <<"A", "B", "C">>,
                   edges |-> <<Link("A", "B", "flow"), Link("B", "C", "flow")>>,
                   arrays |-> {"nodes", "edges"}, layout |-> "auto"])

\* What readFile(path) can settle with: a rejection, a string (empty, no
\* JSON, an incomplete document, the document of the file), or an object that
\* carries the content in a field.
ReadResults(path) ==
    { [settles |-> "rejects", type |-> "none", content |-> EmptyText] }
    \cup { [settles |-> "resolves", type |-> "string", content |-> t] :
             t \in {EmptyText, MalformedText, JSONstringify(IncompleteDoc),
                    JSONstringify(DocAt(path))} }
    \cup { [settles |-> "resolves", type |-> "object",
            content |-> JSONstringify(DocAt(path))] }

\* What readFile(path) can settle with under the host h: over well-formed
\* files it resolves with the document of the file as a string.
ReadResultsOf(h, path) ==
    IF h.disk = "documents"
    THEN {r \in ReadResults(path) :
            r.type = "string" /\ r.content = JSONstringify(DocAt(path))}
    ELSE ReadResults(path)

\* Whether writeFile can resolve, reject under the host h: over well-formed
\* files it resolves.
WriteResultsOf(h) == IF h.disk = "documents" THEN {TRUE} ELSE BOOLEAN

\* ================================================================== the panels
\* PrincipalViewGraphPanel (kind "config") and TraceViewerPanel (kind "trace")
\* keep the same state and load in the same way; availableConfigs and
\* selectedConfigId stand for availableTraces and selectedTraceId as well.  The
\* trace viewer cannot edit: its isEditMode, hasUnsavedChanges and isSaving
\* stay false.

\* useState initial value.
InitialPanel ==
    [ canvas |-> Null, loading |-> TRUE, error |-> Null,
      availableConfigs |-> <<>>, selectedConfigId |-> Null,
      isEditMode |-> FALSE, hasUnsavedChanges |-> FALSE, isSaving |-> FALSE ]

\* setState(prev => ({ ...prev, loading: prev.canvas === null, error: null }))
LoadingState(p) == [p EXCEPT !.loading = (p.canvas = Null), !.error = Null]

\* The state set when there is no file list or no matching file.
EmptyState(p) ==
    [p EXCEPT !.canvas = Null, !.loading = FALSE, !.error = Null,
              !.availableConfigs = <<>>, !.selectedConfigId = Null]

\* The state set by the catch block of a load.
ErrorState(p, e) ==
    [p EXCEPT !.canvas = Null, !.loading = FALSE, !.error = Some(e)]

\* The state set after a successful read and parse.
ReadyState(p, doc, available, selected) ==
    [p EXCEPT !.canvas = Some(doc), !.loading = FALSE, !.error = Null,
              !.availableConfigs = available,
              !.selectedConfigId = Some(selected.id),
              !.hasUnsavedChanges = FALSE]

\* A discovery that pushes onto an array it keeps between two calls.
DiscoverIntoKeptArray(files) ==
    (IF calls = <<>> THEN <<>> ELSE calls[Len(calls)].availableConfigs)
        \o (IF kind = "config" THEN findConfigs(files) ELSE findTraceFiles(files))

\* findConfigs for the graph panel, findTraceFiles for the trace viewer.
Discover(files) ==
    IF kind = "config" THEN findConfigs(files) ELSE findTraceFiles(files)

\* availableConfigs.find(c => c.id === id): null when there is none.
FindById(available, id) ==
    LET i == FirstIndex(available, {c \in Range(available) : c.id = id})
    IN  IF i = 0 THEN Null ELSE Some(available[i])

\* The config a load selects among a non-empty list: the one asked for (null
\* if it is not there), else the one selected so far if it is still there,
\* else the first.
SelectConfig(available, configId, selectedConfigIdRef) ==
    IF Present(configId) THEN FindById(available, configId)
    ELSE IF selectedConfigIdRef # Null /\ Present(selectedConfigIdRef[1])
    THEN IF FindById(available, selectedConfigIdRef[1]) # Null
         THEN FindById(available, selectedConfigIdRef[1])
         ELSE Some(available[1])
    ELSE Some(available[1])

\* A call of loadConfiguration, loadTrace or saveAllChanges: its argument
\* (the id asked for, if any), its locals (the
\* file list it was given, if it got one, the list it discovered, the config it selected,
\* the document it writes, whether the GraphRenderer had pending changes)
\* and where it stands ("reading": awaiting readFile, "writing": awaiting
\* writeFile, anything else: finished).  by: what made the call, an "event"
\* (a click, an event of another panel) or an "effect".  sameCanvas: the document a save
\* writes is the very object the panel has rendered last (a save without
\* pending changes writes state.canvas itself).
CallOf(op, configId, status, files, available, selected, doc, hasGraphChanges) ==
    [op |-> op, configId |-> configId, status |-> status, allFiles |-> files,
     availableConfigs |-> available, selectedConfig |-> selected,
     updatedCanvas |-> doc, hasGraphChanges |-> hasGraphChanges,
     sameCanvas |-> (status = "writing" /\ ~hasGraphChanges), by |-> "event"]

NotFoundText == IF kind = "config" THEN "Config with ID not found: "
                ELSE "Trace with ID not found: "

\* loadConfiguration / loadTrace from the test of the slice t to its first
\* await, given the state p1 its first setState has left, the list it
\* discovers and the config it selects in a non-empty list: the panel state
\* it leaves and the call it has become.
LoadChecks(t, p1, available, selected, configId) ==
    LET early(st) == CallOf("load", configId, st, Null, <<>>, Null, Null, FALSE)
        thrown(e) == [panel |-> ErrorState(p1, e),
                      call  |-> CallOf("load", configId, "failed", Some(t.allFiles), available,
                                       selected, Null, FALSE)]
    IN  IF ~t.hasSlice
        THEN [panel |-> ErrorState(p1, Error("File tree data not available", <<>>)),
              call  |-> early("failed")]
        ELSE IF t.loading THEN [panel |-> p1, call |-> early("returned")]
        ELSE IF ~t.hasAllFiles
        THEN [panel |-> EmptyState(p1), call |-> early("empty")]
        ELSE IF available = <<>>
        THEN [panel |-> EmptyState(p1),
              call  |-> CallOf("load", configId, "empty", Some(t.allFiles), available,
                               Null, Null, FALSE)]
        ELSE IF selected = Null THEN thrown(Error(NotFoundText, configId))
        ELSE IF ~host.readFile THEN thrown(Error("readFile action not available", <<>>))
        ELSE IF ~host.repositoryPath
        THEN thrown(Error("Repository path not available", <<>>))
        ELSE [panel |-> p1,
              call  |-> CallOf("load", configId, "reading", Some(t.allFiles), available,
                               selected, Null, FALSE)]

\* The selection step of a load: nothing is selected in an empty list.
\* selectedConfigIdRef is selectedConfigIdRef.current.
LoadSelect(t, p1, available, configId, selectedConfigIdRef) ==
    LoadChecks(t, p1, available,
               IF available = <<>> THEN Null
               ELSE SelectConfig(available, configId, selectedConfigIdRef),
               configId)

\* loadConfiguration / loadTrace up to its first await, applied to the
\* state p the queued updaters give.  contextRef.current and
\* selectedConfigIdRef.current are assigned in the body of the component:
\* they hold the slice and the selection of the last render.
LoadStart(p, configId) ==
    LoadSelect(tree, LoadingState(p), Discover(tree.allFiles), configId,
               state.selectedConfigId)

\* selectedConfigIdRef.current || undefined: the ref holds the selected id of
\* the last render.
RefOrUndefined ==
    IF state.selectedConfigId = Null THEN Absent
    ELSE OrElse(state.selectedConfigId[1], Absent)

\* The GraphRenderer is part of what the panel renders only when the panel
\* is not loading, shows no error and has a document.
Rendered(p) == ~p.loading /\ p.error = Null /\ p.canvas # Null

\* The pending changes after a state update: an unmounted GraphRenderer
\* holds none.
EditsAfter(p, pending) == IF Rendered(p) THEN pending ELSE EmptyChanges

\* applyChangesToCanvas on a document given as a value.
ApplyToDocument(doc, ch, nows) ==
    LET c == CanvasParse(<<>>, doc)
        r == applyChangesToCanvas(c.heap, c.ref, ch, nows)
    IN  CanvasValue(r.heap, r.ref)

\* The message of the error a rejected readFile or writeFile carries.
RejectionText == "EACCES"

ReadFailedText == IF kind = "config" THEN "Failed to read config file"
                  ELSE "Failed to read trace file"

\* loadConfiguration / loadTrace after readFile has settled: the panel state
\* it leaves, and whether it ended in the try block.  The read of the optional
\* library.yaml and the background reads of the other configs' descriptions
\* write library and configDescriptions only, which are left out.
LoadFinish(p, call, result) ==
    LET parsed == IF kind = "config" THEN parseCanvas(result.content)
                  ELSE parseTraceCanvas(result.content)
    IN  IF result.settles = "rejects"
        THEN [panel |-> ErrorState(p, Error(RejectionText, <<>>)), ok |-> FALSE]
        ELSE IF result.content.form = "empty" \/ result.type # "string"
        THEN [panel |-> ErrorState(p, Error(ReadFailedText, <<>>)), ok |-> FALSE]
        ELSE IF ~parsed.ok
        THEN [panel |-> ErrorState(p, parsed.error[1]), ok |-> FALSE]
        ELSE [panel |-> ReadyState(p, parsed.canvas, call.availableConfigs,
                                   call.selectedConfig[1]),
              ok |-> TRUE]

\* saveAllChanges up to its await of writeFile.  The callback is memoised
\* on state.canvas and state.availableConfigs: it reads the state s of the
\* last render, and the state.hasUnsavedChanges it tests is the one of the
\* render in which either was last another object (stateUnsaved).  Without
\* pending changes in the GraphRenderer and without that mark it returns
\* before anything is set.  Its updaters apply to the queued state p.
SaveStart(s, p, pending, stateUnsaved) ==
    LET p1              == [p EXCEPT !.isSaving = TRUE]
        hasGraphChanges == pending # EmptyChanges
        selected        == IF s.selectedConfigId = Null THEN Null
                           ELSE FindById(s.availableConfigs, s.selectedConfigId[1])
        thrown(text)    == [panel |-> [p1 EXCEPT !.isSaving = FALSE,
                                 !.error = Some([Error(text, <<>>) EXCEPT
                                                   !.wrap = "Failed to save: "])],
                            call  |-> CallOf("save", Absent, "failed", Null, s.availableConfigs,
                                             selected, Null, hasGraphChanges)]
    IN  IF s.canvas = Null \/ (~hasGraphChanges /\ ~stateUnsaved)
        THEN [panel |-> p,
              call  |-> CallOf("save", Absent, "returned", Null, s.availableConfigs,
                               Null, Null, hasGraphChanges)]
        ELSE IF ~host.writeFile THEN thrown("writeFile action not available")
        ELSE IF ~host.repositoryPath THEN thrown("Repository path not available")
        ELSE IF selected = Null THEN thrown("Selected config not found")
        ELSE [panel |-> p1,
              call  |-> CallOf("save", Absent, "writing", Null, s.availableConfigs, selected,
                               Some(IF hasGraphChanges
                                    THEN ApplyToDocument(s.canvas[1], pending, <<>>)
                                    ELSE s.canvas[1]),
                               hasGraphChanges)]

\* saveAllChanges after writeFile has settled.
SaveFinish(p, call, resolved) ==
    IF resolved
    THEN [p EXCEPT !.canvas = call.updatedCanvas, !.isSaving = FALSE,
                   !.hasUnsavedChanges = FALSE]
    ELSE [p EXCEPT !.isSaving = FALSE,
                   !.error = Some([Error(RejectionText, <<>>) EXCEPT
                                     !.wrap = "Failed to save: "])]

\* ------------------------------------------------------------------ the effects
\* Objects are compared by reference in the effects, so the slice carries
\* identities (refs): version counts the states the host has published, id
\* is the version at which the data object was made (type "null": the data
\* is null), files[i] is the version at which the record allFiles[i] was
\* made, and origin tells what made the host publish the state ("mount":
\* it is the one of the first render, "host": a change of its own, "write":
\* a write of the panel it takes up).

\* The identities of a slice at mount.
RefsAtMount(t) ==
    [version |-> 1,
     type    |-> IF ~t.hasSlice THEN "undefined"
                 ELSE IF t.loading THEN "null" ELSE "object",
     id      |-> 1,
     files   |-> ArrayOf([i \in 1..Len(t.allFiles) |-> 1], Len(t.allFiles)),
     origin  |-> "mount"]

\* context.hasSlice('fileTree') && context.isSliceLoading('fileTree')
fileTreeLoading(t) == t.hasSlice /\ t.loading

\* fileTreeSlice?.data of a render: undefined without a slice, null while
\* the slice holds no data, else the data object of the slice with its
\* identity.  undefined and null have no identity: null is the null of the
\* render before.
fileTreeData(t, r) ==
    IF ~t.hasSlice \/ r.type # "object"
    THEN [type |-> IF t.hasSlice THEN r.type ELSE "undefined", id |-> 0,
          allFiles |-> <<>>, files |-> <<>>]
    ELSE [type |-> r.type, id |-> r.id, allFiles |-> t.allFiles, files |-> r.files]

\* files.find(f => (f.path || f.relativePath) === path), as the identity of
\* the record found (0: undefined).
FindFileRecord(data, path) ==
    LET i == FirstIndex(data.allFiles,
                        {f \in Range(data.allFiles) : OrElse(f.path, f.relativePath) = path})
    IN  IF i = 0 THEN 0 ELSE data.files[i]

\* An effect that never reloads.
NoLoadingEffect(wasLoading, loading) == FALSE

\* The effect that reloads when fileTree goes from loading to loaded:
\* whether it calls loadConfiguration / loadTrace.
LoadingEffect(wasLoading, loading) == wasLoading /\ ~loading

\* The effect of the graph panel that watches the fileTree data, run in a
\* render with state p: the value it leaves in skipNextFileChangeRef and
\* whether it calls loadConfiguration.  No file list of the model holds a
\* library.yaml, so libraryChanged is false.
FileChangeEffect(prevData, data, loading, skip, p) ==
    LET selectedConfig == IF p.selectedConfigId = Null THEN Null
                          ELSE FindById(p.availableConfigs, p.selectedConfigId[1])
    IN  IF prevData.type = "null" \/ loading THEN [skip |-> skip, load |-> FALSE]
        ELSE IF skip THEN [skip |-> FALSE, load |-> FALSE]
        ELSE IF prevData = data \/ data.type = "null" THEN [skip |-> FALSE, load |-> FALSE]
        ELSE IF selectedConfig = Null
        THEN [skip |-> FALSE, load |-> findConfigs(data.allFiles) # <<>>]
        ELSE [skip |-> FALSE,
              load |-> FindFileRecord(prevData, selectedConfig[1].path)
                         # FindFileRecord(data, selectedConfig[1].path)]

\* ------------------------------------------------------------------ rendering
\* setState only queues an updater; the state changes in the next render.
\* Callbacks and effects depend on objects by identity, so the queue records
\* whether the canvas it gives is another object than the one rendered last
\* (null is null), whether availableConfigs is another array, and whether
\* layoutVersion was incremented (the key of the GraphRenderer).

NoUpdates ==
    [queued |-> FALSE, canvas |-> FALSE, availableConfigs |-> FALSE,
     layoutVersion |-> FALSE]

\* The queue after the updaters of a load that has come to status: the empty
\* state and the error state drop the canvas, the empty state holds a new
\* empty array, the ready state holds the parsed document and the list the
\* load discovered.
UpdatesAfterLoad(u, status) ==
    [u EXCEPT !.queued = TRUE,
              !.canvas = IF status \in {"empty", "failed"} THEN state.canvas # Null
                         ELSE IF status = "ready" THEN TRUE
                         ELSE @,
              !.availableConfigs = (@ \/ status \in {"empty", "ready"})]

\* The effects of the first render.
MountEffects ==
    {"mount", "loading"} \cup (IF kind = "config" THEN {"data"} ELSE {})

\* The effects React schedules in a render with the slice t (identities r)
\* that takes up the queue u: an effect runs when one of its dependencies is
\* not what it was in the render before.  The refs of the two effects on the
\* slice hold the values of that render.
ScheduledEffects(t, r, u) ==
    LET loadingChanged == fileTreeLoading(t) # fileTreeLoadingRef
        dataChanged    == fileTreeData(t, r) # fileTreeDataRef
    IN  (IF loadingChanged THEN {"loading"} ELSE {})
        \cup (IF kind = "config" /\ (dataChanged \/ loadingChanged \/ u.availableConfigs)
              THEN {"data"} ELSE {})

\* A render: the queued state p becomes the state, with the slice t.  The
\* GraphRenderer is mounted anew (without pending changes) when its key
\* changes, and is unmounted when the panel shows no graph; saveAllChanges is
\* made anew when state.canvas or state.availableConfigs is another object;
\* the document a save in flight writes is no longer the rendered object once
\* the canvas is another one.
Commit(p, u, cs, pending, t, r) ==
    /\ panel' = p
    /\ state' = p
    /\ updates' = NoUpdates
    /\ edits' = IF u.layoutVersion THEN EmptyChanges ELSE EditsAfter(p, pending)
    /\ closureUnsaved' = IF u.canvas \/ u.availableConfigs THEN p.hasUnsavedChanges
                         ELSE closureUnsaved
    /\ calls' = IF u.canvas
                THEN ArrayOf([i \in 1..Len(cs) |-> [cs[i] EXCEPT !.sameCanvas = FALSE]],
                             Len(cs))
                ELSE cs
    /\ tree' = t
    /\ refs' = r
    /\ pendingEffects' = ScheduledEffects(t, r, u)

\* applySugiyamaLayout(state.canvas, { direction, nodeSpacingX, nodeSpacingY }):
\* a new document in which only the positions of the nodes differ.  The
\* layout places the nodes of the model's documents side by side, in the
\* order of the list.
applySugiyamaLayout(doc) ==
    [doc EXCEPT !.nodes = ArrayOf([i \in 1..Len(doc.nodes) |->
                                     [doc.nodes[i] EXCEPT !.x = 1000 * i, !.y = 0]],
                                  Len(doc.nodes))]

\* ------------------------------------------------------------------ the panel state machine

\* Number of calls of loadConfiguration / loadTrace / saveAllChanges after
\* which the user starts no further one.
MaxCalls == 3

\* Number of calls after which no load is asked for from outside the panel.
MaxLoads == 2

\* Number of events from outside the panel: calls made by the user or by
\* another panel, states of the slice the host publishes on its own.
MaxEvents == 3

Events ==
    Cardinality({i \in 1..Len(calls) : calls[i].by = "event"})
        + (refs.version - 1 - published)

\* The ids a load is asked for: none (mount, data:refresh, retry), or the id
\* carried by a selection (a, b-a, b).
LoadRequests == {Absent, <<"a">>, <<"b", "-", "a">>, <<"b">>}

\* The batch the user leaves pending in the GraphRenderer: a node moved and
\* a node deleted.
EditBatches ==
    { [EmptyChanges EXCEPT !.positionChanges =
           << [nodeId |-> "A", position |-> [x |-> 104, y |-> -25]] >>,
                           !.deletedNodeIds = <<"B">>] }

\* The panel after its first render, before the effects of that render,
\* in one of the hosts over one of the slices given for its kind.
MountOver(hosts, configTrees, traceTrees) ==
    /\ heap = <<>>
    /\ canvas = NoRef
    /\ config = NoRef
    /\ changes = EmptyChanges
    /\ times = <<>>
    /\ updatedCanvas = NoRef
    /\ updatedConfig = NoRef
    /\ pc = "panel"
    /\ kind \in {"config", "trace"}
    /\ tree \in (IF kind = "config" THEN configTrees ELSE traceTrees)
    /\ host \in hosts
    /\ panel = InitialPanel
    /\ state = InitialPanel
    /\ updates = NoUpdates
    /\ pendingEffects = MountEffects
    /\ calls = <<>>
    /\ edits = EmptyChanges
    /\ written = <<>>
    /\ refs = RefsAtMount(tree)
    /\ published = 0
    /\ fileTreeLoadingRef = fileTreeLoading(tree)
    /\ fileTreeDataRef = fileTreeData(tree, refs)
    /\ skipNextFileChangeRef = FALSE
    /\ closureUnsaved = FALSE

\* loadConfiguration() / loadTrace() as an effect calls it.
EffectLoad(p) ==
    LET r == LoadStart(p, Absent)
    IN  [panel |-> r.panel, call |-> [r.call EXCEPT !.by = "effect"]]

\* React runs the effects of the last render: the mount effect (first render
\* only), the effect on fileTreeLoading and the effect on fileTreeData, in
\* the order of their declaration.  Each may call loadConfiguration /
\* loadTrace, which runs up to its first await and queues its updaters.
Effects ==
    /\ pc = "panel"
    /\ pendingEffects # {}
    /\ LET loading == fileTreeLoading(tree)
           data    == fileTreeData(tree, refs)
           mount   == "mount" \in pendingEffects
           first   == "loading" \in pendingEffects
                         /\ LoadingEffect(fileTreeLoadingRef, loading)
           change  == IF "data" \in pendingEffects
                      THEN FileChangeEffect(fileTreeDataRef, data, loading,
                                            skipNextFileChangeRef, state)
                      ELSE [skip |-> skipNextFileChangeRef, load |-> FALSE]
           n       == (IF mount THEN 1 ELSE 0) + (IF first THEN 1 ELSE 0)
                         + (IF change.load THEN 1 ELSE 0)
       IN  /\ fileTreeLoadingRef' = IF "loading" \in pendingEffects THEN loading
                                    ELSE fileTreeLoadingRef
           /\ fileTreeDataRef' = IF "data" \in pendingEffects THEN data
                                 ELSE fileTreeDataRef
           /\ skipNextFileChangeRef' = change.skip
           /\ \E one \in {EffectLoad(panel)} :
                \E two \in {EffectLoad(one.panel)} :
                   /\ panel' = IF n = 0 THEN panel
                               ELSE IF n = 1 THEN one.panel ELSE two.panel
                   /\ calls' = IF n = 0 THEN calls
                               ELSE IF n = 1 THEN Append(calls, one.call)
                               ELSE calls \o <<one.call, two.call>>
                   /\ updates' = IF n = 0 THEN updates
                                 ELSE IF n = 1
                                 THEN UpdatesAfterLoad(updates, one.call.status)
                                 ELSE UpdatesAfterLoad(
                                          UpdatesAfterLoad(updates, one.call.status),
                                          two.call.status)
    /\ pendingEffects' = {}
    /\ UNCHANGED <<kind, tree, host, state, edits, written, hostVars, closureUnsaved>>
    /\ UNCHANGED reconcilerVars

\* React renders the panel with the slice as it is: the queued updaters
\* become the state.
Render ==
    /\ pc = "panel"
    /\ updates.queued
    /\ pendingEffects = {}
    /\ Commit(panel, updates, calls, edits, tree, refs)
    /\ UNCHANGED <<kind, host, written, published, handlerVars>>
    /\ UNCHANGED reconcilerVars

\* loadConfiguration(configId) / loadTrace(traceId) is called from outside a
\* render: by the 'data:refresh' subscription, by a 'selectConfig' event of
\* another panel, by the retry button or by the selector, without an id or
\* with the id of the event.  The subscriptions are made by effects of the
\* first render.
Load ==
    /\ pc = "panel"
    /\ "mount" \notin pendingEffects
    /\ Len(calls) < MaxLoads /\ Events < MaxEvents
    /\ \E configId \in LoadRequests :
          \E r \in {LoadStart(panel, configId)} :
             /\ panel' = r.panel
             /\ calls' = Append(calls, r.call)
             /\ updates' = UpdatesAfterLoad(updates, r.call.status)
    /\ UNCHANGED <<kind, tree, host, state, edits, written, hostVars, effectVars,
                   pendingEffects>>
    /\ UNCHANGED reconcilerVars

\* The readFile a load awaits settles and the load runs to its end: it
\* queues the ready state or the error state, and in the try block it calls
\* resetEditState on the GraphRenderer.
ReadSettles ==
    /\ pc = "panel"
    /\ \E i \in 1..Len(calls) :
          /\ calls[i].status = "reading"
          /\ \E result \in ReadResultsOf(host, calls[i].selectedConfig[1].path) :
                \E r \in {LoadFinish(panel, calls[i], result)} :
                   /\ panel' = r.panel
                   /\ calls' = [calls EXCEPT ![i].status =
                                   IF r.ok THEN "ready" ELSE "failed"]
                   /\ updates' = UpdatesAfterLoad(updates,
                                                  IF r.ok THEN "ready" ELSE "failed")
                   /\ edits' = IF r.ok THEN EmptyChanges ELSE edits
    /\ UNCHANGED <<kind, tree, host, state, written, hostVars, effectVars,
                   pendingEffects>>
    /\ UNCHANGED reconcilerVars

\* The writeFile a save awaits settles and the save runs to its end: after
\* a write that resolved it sets skipNextFileChangeRef and queues the saved
\* document with another layoutVersion, after a rejection it queues the
\* error.
WriteSettles ==
    /\ pc = "panel"
    /\ \E i \in 1..Len(calls), resolved \in WriteResultsOf(host) :
          /\ calls[i].status = "writing"
          /\ panel' = SaveFinish(panel, calls[i], resolved)
          /\ calls' = [calls EXCEPT ![i].status =
                           IF resolved THEN "saved" ELSE "failed"]
          /\ written' = IF resolved
                        THEN Append(written,
                                    [path    |-> calls[i].selectedConfig[1].path,
                                     content |-> JSONstringify(calls[i].updatedCanvas[1])])
                        ELSE written
          /\ skipNextFileChangeRef' = (resolved \/ skipNextFileChangeRef)
          /\ updates' = IF resolved
                        THEN [updates EXCEPT !.queued = TRUE,
                                             !.canvas = ~calls[i].sameCanvas,
                                             !.layoutVersion = TRUE]
                        ELSE [updates EXCEPT !.queued = TRUE]
    /\ UNCHANGED <<kind, tree, host, state, edits, hostVars, fileTreeLoadingRef,
                   fileTreeDataRef, closureUnsaved, pendingEffects>>
    /\ UNCHANGED reconcilerVars

\* toggleEditMode (the edit button, disabled while a save runs): leaving
\* edit mode with unsaved changes reloads the selected config, anything else
\* flips isEditMode.  The reload is called inside the updater passed to
\* setState.  With nothing queued React may run the updater at the call
\* (eager): the updaters of the load are then queued in front of the
\* updater's result, which replaces what they give.  Otherwise the updater
\* runs in the render and the updaters of the load follow it.  The click is
\* a React event, so the render follows the handler at once.
ToggleEditMode ==
    /\ pc = "panel"
    /\ kind = "config"
    /\ pendingEffects = {}
    /\ Rendered(state)
    /\ ~state.isSaving
    /\ IF panel.isEditMode /\ panel.hasUnsavedChanges
       THEN /\ Len(calls) < MaxCalls /\ Events < MaxEvents
            /\ \E toggled \in {[panel EXCEPT !.isEditMode = FALSE,
                                             !.hasUnsavedChanges = FALSE]} :
                \E r \in {LoadStart(toggled, RefOrUndefined)} :
                  \E eager \in {FALSE} \cup {b \in {TRUE} : ~updates.queued} :
                     Commit(IF eager THEN toggled ELSE r.panel,
                            IF eager THEN [updates EXCEPT !.queued = TRUE]
                            ELSE UpdatesAfterLoad(updates, r.call.status),
                            Append(calls, r.call), edits, tree, refs)
       ELSE Commit([panel EXCEPT !.isEditMode = ~panel.isEditMode],
                   [updates EXCEPT !.queued = TRUE], calls, edits, tree, refs)
    /\ UNCHANGED <<kind, host, written, published, handlerVars>>
    /\ UNCHANGED reconcilerVars

\* handlePendingChangesChange(hasChanges): the user edits the graph and the
\* GraphRenderer, which holds the batch, reports whether anything is pending.
Edit ==
    /\ pc = "panel"
    /\ kind = "config"
    /\ pendingEffects = {}
    /\ Rendered(state)
    /\ state.isEditMode
    /\ \E batch \in EditBatches \cup {EmptyChanges} :
          /\ batch # edits \/ panel.hasUnsavedChanges # (batch # EmptyChanges)
          /\ Commit([panel EXCEPT !.hasUnsavedChanges = (batch # EmptyChanges)],
                    [updates EXCEPT !.queued = TRUE], calls, batch, tree, refs)
    /\ UNCHANGED <<kind, host, written, published, handlerVars>>
    /\ UNCHANGED reconcilerVars

\* applyAutoLayout: the Auto Layout button of the edit tools.  The callback
\* lays out the state.canvas of the render it was made in; the laid-out
\* document is queued with another layoutVersion.
AutoLayout ==
    /\ pc = "panel"
    /\ kind = "config"
    /\ pendingEffects = {}
    /\ Rendered(state)
    /\ state.isEditMode
    /\ Commit([panel EXCEPT !.canvas = Some(applySugiyamaLayout(state.canvas[1])),
                            !.isEditMode = TRUE,
                            !.hasUnsavedChanges = TRUE],
              [updates EXCEPT !.queued = TRUE, !.canvas = TRUE, !.layoutVersion = TRUE],
              calls, edits, tree, refs)
    /\ UNCHANGED <<kind, host, written, published, handlerVars>>
    /\ UNCHANGED reconcilerVars

\* The save button is pressed: it is shown in edit mode with unsaved changes
\* and disabled while a save runs.  A saveAllChanges that returns at once
\* changes nothing.
Save ==
    /\ pc = "panel"
    /\ kind = "config"
    /\ pendingEffects = {}
    /\ Rendered(state)
    /\ state.isEditMode /\ state.hasUnsavedChanges /\ ~state.isSaving
    /\ Len(calls) < MaxCalls /\ Events < MaxEvents
    /\ \E r \in {SaveStart(state, panel, edits, closureUnsaved)} :
           /\ r.call.status # "returned"
           /\ Commit(r.panel, [updates EXCEPT !.queued = TRUE],
                     Append(calls, r.call), edits, tree, refs)
    /\ UNCHANGED <<kind, host, written, published, handlerVars>>
    /\ UNCHANGED reconcilerVars

\* discardChanges: reload the selected config and drop the unsaved mark.
\* The button is shown in edit mode with unsaved changes and disabled while
\* a save runs.
Discard ==
    /\ pc = "panel"
    /\ kind = "config"
    /\ pendingEffects = {}
    /\ Rendered(state)
    /\ state.isEditMode /\ state.hasUnsavedChanges /\ ~state.isSaving
    /\ Len(calls) < MaxCalls /\ Events < MaxEvents
    /\ \E r \in {LoadStart(panel, RefOrUndefined)} :
           Commit([r.panel EXCEPT !.hasUnsavedChanges = FALSE],
                  UpdatesAfterLoad(updates, r.call.status),
                  Append(calls, r.call), edits, tree, refs)
    /\ UNCHANGED <<kind, host, written, published, handlerVars>>
    /\ UNCHANGED reconcilerVars

\* Another panel emits 'trace:load' with the path of a trace file of the
\* tree: the trace viewer derives an id from the path and calls loadTrace
\* with it, and does nothing when the path does not match.
TraceLoadOf(file) ==
    /\ pc = "panel"
    /\ kind = "trace"
    /\ "mount" \notin pendingEffects
    /\ Len(calls) < MaxCalls /\ Events < MaxEvents
    /\ TraceFileOf(file) # <<>>
    /\ \E pathMatch \in {MatchTracePath(TraceFileOf(file)[1].path, 1)} :
          /\ pathMatch.matched
          /\ \E r \in {LoadStart(panel, TraceIdOfMatch(pathMatch))} :
                 /\ panel' = r.panel
                 /\ calls' = Append(calls, r.call)
                 /\ updates' = UpdatesAfterLoad(updates, r.call.status)
    /\ UNCHANGED <<kind, tree, host, state, edits, written, hostVars, effectVars,
                   pendingEffects>>
    /\ UNCHANGED reconcilerVars

TraceLoad == \E file \in Range(tree.allFiles) : TraceLoadOf(file)

\* ------------------------------------------------------------------ the host changes the slice

\* The file lists the host publishes after mount.
WatchLists ==
    IF kind = "config"
    THEN { <<>>, <<FileVgcA, FileVgcBA>>, <<FileVgcSubA, FileVgcA>> }
    ELSE { <<>>, <<FileBare_B, FilePkgB_A>>, <<FilePkgB_A, FilePkgA_BA, FileBare_B>> }

\* The identities of the records of a new file list: the record of a path
\* in kept is the object it was, any other record is a new object.
RecordsOf(files, kept, version) ==
    ArrayOf([i \in 1..Len(files) |->
                LET old == FindFileRecord(fileTreeData(tree, refs), files[i].path)
                IN  IF files[i].path \in kept /\ old # 0 THEN old ELSE version],
            Len(files))

\* A new data object with the given file list.
SliceOf(loading, files, kept, version, origin) ==
    [tree |-> TreeOf(TRUE, loading, TRUE, files),
     refs |-> [version |-> version, type |-> "object", id |-> version,
               files |-> RecordsOf(files, kept, version), origin |-> origin]]

\* What the host can publish next on its own: the loading flag flips, the
\* slice starts loading and drops its data, or the slice is loaded with a
\* new data object: one with the file list it had, whose records are the
\* old objects or all new, or one with another list and new records.
SlicesAfter(t, r) ==
    { [tree |-> [t EXCEPT !.loading = ~t.loading],
       refs |-> [r EXCEPT !.version = r.version + 1, !.origin = "host"]],
      [tree |-> TreeOf(TRUE, TRUE, FALSE, <<>>),
       refs |-> [version |-> r.version + 1, type |-> "null", id |-> r.version + 1,
                 files |-> <<>>, origin |-> "host"]] }
    \cup { SliceOf(FALSE, files, {}, r.version + 1, "host") : files \in WatchLists }
    \cup { SliceOf(FALSE, t.allFiles, {f.path : f \in Range(t.allFiles)}, r.version + 1,
                   "host") }

\* What the host publishes when it takes up a write: a new data object with
\* the same file list, in which the record of the written file is new.
SliceAfterWrite(t, r, path) ==
    SliceOf(t.loading, t.allFiles, {f.path : f \in Range(t.allFiles)} \ {path},
            r.version + 1, "write")

\* The host publishes a new state of the slice on its own (files changed on
\* disk, a refresh of the tree) and the panel is rendered with it.
FileTreeChange ==
    /\ pc = "panel"
    /\ pendingEffects = {}
    /\ tree.hasSlice
    /\ Events < MaxEvents
    /\ \E s \in SlicesAfter(tree, refs) :
          Commit(panel, updates, calls, edits, s.tree, s.refs)
    /\ UNCHANGED <<kind, host, written, published, handlerVars>>
    /\ UNCHANGED reconcilerVars

\* The host publishes the state of the slice that takes up the oldest write
\* it has not taken up yet, and the panel is rendered with it.
FileTreePublish ==
    /\ pc = "panel"
    /\ pendingEffects = {}
    /\ tree.hasSlice /\ tree.hasAllFiles
    /\ published < Len(written)
    /\ FindFileRecord(fileTreeData(tree, refs), written[published + 1].path) # 0
    /\ \E s \in {SliceAfterWrite(tree, refs, written[published + 1].path)} :
          Commit(panel, updates, calls, edits, s.tree, s.refs)
    /\ published' = published + 1
    /\ UNCHANGED <<kind, host, written, handlerVars>>
    /\ UNCHANGED reconcilerVars

\* The panel is mounted in any host over any slice.
PanelInit == MountOver(Hosts, TreeStates, TreeStates)

\* The panel under a host whose slice stays as it was at mount.
PanelNext ==
    \/ Effects
    \/ Render
    \/ Load
    \/ TraceLoad
    \/ ReadSettles
    \/ WriteSettles
    \/ ToggleEditMode
    \/ Edit
    \/ AutoLayout
    \/ Save
    \/ Discard

PanelSpec == PanelInit /\ [][PanelNext]_vars

\* The panel is mounted in a host that provides every capability, over a
\* slice that is still loading or holds two files the panel recognises.
WatchInit ==
    MountOver({SoundHost},
              {TreeOf(TRUE, FALSE, TRUE, <<FileVgcA, FileVgcBA>>)},
              {TreeOf(TRUE, FALSE, TRUE, <<FileBare_B, FilePkgB_A>>)})

WatchNext ==
    \/ Effects
    \/ Render
    \/ Load
    \/ TraceLoad
    \/ ReadSettles
    \/ WriteSettles
    \/ ToggleEditMode
    \/ Edit
    \/ AutoLayout
    \/ Save
    \/ Discard
    \/ FileTreeChange
    \/ FileTreePublish

WatchSpec == WatchInit /\ [][WatchNext]_vars

\* The panel is mounted while the slice is still loading.
MountInit ==
    MountOver(Hosts,
              {TreeOf(TRUE, TRUE, FALSE, <<>>)},
              {TreeOf(TRUE, TRUE, FALSE, <<>>)})

\* The steps of Effects: the only steps that leave no effect pending where
\* some were.
EffectsRun == pc = "panel" /\ pendingEffects # {} /\ pendingEffects' = {}

\* React runs the effects of a render and the render of queued updaters in
\* the end, and the readFile a load awaits resolves or rejects in the end.
MountSpec ==
    MountInit /\ [][WatchNext]_vars
        /\ WF_pendingEffects(EffectsRun) /\ WF_vars(Render) /\ WF_vars(ReadSettles)

\* ------------------------------------------------------------------ discovery on its own
\* findConfigs and findTraceFiles are static functions of a file list; they
\* are called here outside a panel, on the lists a host serves one after the
\* other.

\* Number of scans of a run.
MaxScans == 3

\* A call of findConfigs / findTraceFiles: the list it was given and the
\* list it returned.
ScanOf(files) ==
    CallOf("scan", Absent, "scanned", Some(files), Discover(files), Null, Null, FALSE)

ScanInit ==
    /\ heap = <<>>
    /\ canvas = NoRef
    /\ config = NoRef
    /\ changes = EmptyChanges
    /\ times = <<>>
    /\ updatedCanvas = NoRef
    /\ updatedConfig = NoRef
    /\ pc = "scan"
    /\ kind \in {"config", "trace"}
    /\ tree \in {TreeOf(TRUE, FALSE, TRUE, files) : files \in FileLists}
    /\ host = <<>>
    /\ panel = <<>>
    /\ state = <<>>
    /\ updates = <<>>
    /\ pendingEffects = {}
    /\ calls = <<>>
    /\ edits = <<>>
    /\ written = <<>>
    /\ refs = <<>>
    /\ published = 0
    /\ fileTreeLoadingRef = FALSE
    /\ fileTreeDataRef = <<>>
    /\ skipNextFileChangeRef = FALSE
    /\ closureUnsaved = FALSE

\* findConfigs(allFiles) / findTraceFiles(allFiles) is called with the list
\* of the slice.
Scan ==
    /\ pc = "scan"
    /\ Len(calls) < MaxScans
    /\ calls' = Append(calls, ScanOf(tree.allFiles))
    /\ UNCHANGED <<kind, tree, host, panel, edits, written, hostVars, effectVars, reactVars>>
    /\ UNCHANGED reconcilerVars

\* The host serves another file list.
Retarget ==
    /\ pc = "scan"
    /\ \E files \in FileLists :
          /\ files # tree.allFiles
          /\ tree' = TreeOf(TRUE, FALSE, TRUE, files)
    /\ UNCHANGED <<kind, host, panel, calls, edits, written, hostVars, effectVars, reactVars>>
    /\ UNCHANGED reconcilerVars

ScanNext ==
    \/ Scan
    \/ Retarget

ScanSpec == ScanInit /\ [][ScanNext]_vars

\* ================================================================== properties of discovery, parsing and the panels

\* The calls of loadConfiguration / loadTrace of the run.
Loads == {i \in 1..Len(calls) : calls[i].op = "load"}

\* The lists the loads of the run have discovered.
Discovered == {calls[i].availableConfigs : i \in Loads}

\* The ordering policy of a trace list: entries without a package first,
\* packages in ascending order, display names ascending within a group.
OrderedByPolicy(list) ==
    \A i, j \in 1..Len(list) :
        i < j =>
            LET a == list[i]
                b == list[j]
            IN  /\ ~(Present(a.packageName) /\ ~Present(b.packageName))
                /\ (Present(a.packageName) /\ Present(b.packageName))
                       => localeCompare(a.packageName, b.packageName) <= 0
                /\ a.packageName = b.packageName
                       => localeCompare(a.name, b.name) <= 0

(* C12: in the list TraceLoader.findTraceFiles returns, every entry without *)
(* a packageName comes before every entry with one, the entries with a      *)
(* packageName are grouped by package in ascending alphabetical order, and  *)
(* within a group the entries are in ascending order of display name.       *)
C12_TraceOrderingPolicy ==
    kind = "trace" => \A list \in Discovered : OrderedByPolicy(list)

\* The entry a discovery makes of a file, <<>> for a file it skips.
EntryOf(file) == IF kind = "config" THEN ConfigFileOf(file) ELSE TraceFileOf(file)

\* The positions of the files that follow a convention.
Matching(files) == {i \in 1..Len(files) : EntryOf(files[i]) # <<>>}

\* list holds one entry for each file of files that follows a convention and
\* nothing else, the configs in the order of the files, the traces in an
\* order the comparator of findTraceFiles accepts.
IsDiscoveryOf(list, files) ==
    /\ Len(list) = Cardinality(Matching(files))
    /\ \A i \in Matching(files) : EntryOf(files[i])[1] \in Range(list)
    /\ \A e \in Range(list) : \E i \in Matching(files) : e = EntryOf(files[i])[1]
    /\ \A k, l \in 1..Len(list) :
          k < l =>
            IF kind = "config"
            THEN \E i, j \in Matching(files) :
                    i < j /\ list[k] = EntryOf(files[i])[1] /\ list[l] = EntryOf(files[j])[1]
            ELSE TraceCompare(list[k], list[l]) <= 0

UniqueIds(list) ==
    \A i, j \in 1..Len(list) : list[i].id = list[j].id => i = j

\* The paths of the file records are pairwise distinct.
DistinctPaths(files) ==
    \A i, j \in 1..Len(files) :
        OrElse(files[i].relativePath, files[i].path)
            = OrElse(files[j].relativePath, files[j].path) => i = j

(* C14: for every list of file records with pairwise distinct paths, the   *)
(* entries ConfigLoader.findConfigs returns have pairwise distinct ids, and *)
(* so have the entries TraceLoader.findTraceFiles returns: an id selects at *)
(* most one file.                                                           *)
C14_DiscoveredIdsUnique ==
    \A i \in Loads :
        (calls[i].allFiles # Null /\ DistinctPaths(calls[i].allFiles[1]))
            => UniqueIds(calls[i].availableConfigs)

\* No file of the list follows a convention the panel recognises: for the
\* graph panel a path in .vgc/ with a name ending in .canvas, for the trace
\* viewer a path one of the three trace patterns matches.
NothingRecognised(files) == Matching(files) = {}

\* Every load that was given a list with no recognised file has discovered
\* nothing and ended as empty.
C15_NothingFound ==
    \A i \in Loads :
        (calls[i].allFiles # Null /\ NothingRecognised(calls[i].allFiles[1]))
            => calls[i].availableConfigs = <<>> /\ calls[i].status = "empty"

\* A step in which a load ends as empty leaves the empty state.
C15_EmptyStep ==
    (/\ Len(calls') = Len(calls) + 1
     /\ calls'[Len(calls')].op = "load"
     /\ calls'[Len(calls')].status = "empty")
        => /\ panel'.loading = FALSE
           /\ panel'.error = Null
           /\ panel'.canvas = Null
           /\ panel'.availableConfigs = <<>>
           /\ panel'.selectedConfigId = Null

(* C15: no matching file is a valid empty state: for an empty file list and *)
(* for a list in which no path matches a recognised convention findConfigs  *)
(* and findTraceFiles return an empty list, and loadConfiguration /         *)
(* loadTrace then ends with loading = false, error = null, canvas null,     *)
(* availableConfigs empty and selectedConfigId null.                        *)
C15_EmptyIsNotAnError == [](C15_NothingFound) /\ [][C15_EmptyStep]_vars

\* A document has the required top-level fields.
HasRequiredFields(doc) == doc.hasNodes /\ doc.hasEdges

(* C16: ConfigLoader.parseCanvas (and TraceLoader.parseTraceCanvas) returns *)
(* a document only for content that has the required shape: it fails for    *)
(* content that is no JSON and for JSON that lacks the required top-level   *)
(* fields, so every document a load hands to the panel has its nodes and    *)
(* edges.                                                                   *)
C16_ParserRejectsIncomplete ==
    (pc = "panel" /\ panel.canvas # Null) => HasRequiredFields(panel.canvas[1])

\* A step in which the read or the parse of a load fails while a document is
\* loaded leaves that document in the panel state.
C17_FailureStep ==
    \A i \in 1..Len(calls) :
        (/\ calls[i].op = "load"
         /\ calls[i].status = "reading"
         /\ calls'[i].status = "failed"
         /\ panel.canvas # Null)
            => panel'.canvas = panel.canvas

(* C17: a failed reload keeps the previous document: when loadConfiguration *)
(* (or loadTrace) fails in reading or parsing the file and a document was   *)
(* already loaded by an earlier load, the panel state still holds that      *)
(* document after the failure.                                              *)
C17_FailedReloadKeepsDocument == [][C17_FailureStep]_vars

\* A step in which the writeFile of a save rejects: the error is set,
\* isSaving is false again, the document and the unsaved-changes flag are
\* untouched, and the GraphRenderer still holds the pending edits.
C18_RejectionStep ==
    \A i \in 1..Len(calls) :
        (/\ calls[i].op = "save"
         /\ calls[i].status = "writing"
         /\ calls'[i].status = "failed")
            => /\ panel'.error # Null
               /\ panel'.error[1].wrap = "Failed to save: "
               /\ panel'.isSaving = FALSE
               /\ panel'.canvas = panel.canvas
               /\ panel'.hasUnsavedChanges = panel.hasUnsavedChanges
               /\ edits' = edits

\* The error state a rejected write leaves.
C18_RejectedWrite ==
    Some([Error(RejectionText, <<>>) EXCEPT !.wrap = "Failed to save: "])

\* The render that shows the error of a rejected write leaves the pending
\* edits in the GraphRenderer.
C18_ShownStep ==
    (/\ pc = "panel"
     /\ updates.queued /\ ~updates'.queued
     /\ state.error # C18_RejectedWrite
     /\ state'.error = C18_RejectedWrite)
        => edits' = edits

(* C18: a rejected write loses no edits: when writeFile rejects during      *)
(* saveAllChanges the error is surfaced ('Failed to save: ...'), isSaving   *)
(* returns to false, the loaded document and the unsaved-changes flag keep  *)
(* their pre-save values, and the pending edits remain available for a      *)
(* second save.                                                             *)
C18_RejectedWriteKeepsEdits == [][C18_RejectionStep /\ C18_ShownStep]_vars

\* A step in which a load delivers its document after a load that was
\* started later has already delivered its own changes neither the document
\* nor the selection.
C19_LateDeliveryStep ==
    \A i \in 1..Len(calls) :
        (/\ calls[i].op = "load"
         /\ calls[i].status = "reading"
         /\ calls'[i].status = "ready"
         /\ \E j \in (i + 1)..Len(calls) :
               calls[j].op = "load" /\ calls[j].status = "ready")
            => /\ panel'.canvas = panel.canvas
               /\ panel'.selectedConfigId = panel.selectedConfigId

(* C19: a newer load supersedes an in-flight one: if loadConfiguration for  *)
(* X is awaiting readFile when loadConfiguration for Y is started, the      *)
(* panel ends with Y's document and selectedConfigId = Y whichever read     *)
(* resolves first; the result of the earlier call never overwrites the      *)
(* result of the later one.                                                 *)
C19_NewerLoadSupersedes == [][C19_LateDeliveryStep]_vars

(* C20: a missing host capability fails loudly: for every file tree, when   *)
(* the host provides no readFile or no repositoryPath, no loadConfiguration *)
(* ends in the empty or in the ready state; and when the host provides no   *)
(* writeFile, every saveAllChanges ends with an error and nothing is        *)
(* written.                                                                 *)
C20_MissingCapabilityFailsLoudly ==
    pc = "panel" =>
        /\ (~host.readFile \/ ~host.repositoryPath)
              => \A i \in Loads : calls[i].status \notin {"empty", "ready"}
        /\ ~host.writeFile
              => /\ written = <<>>
                 /\ \A i \in 1..Len(calls) :
                       calls[i].op = "save" => calls[i].status = "failed"

\* ================================================================== properties of the panel under a changing slice

\* The calls started in this step.
Started == (Len(calls) + 1)..Len(calls')

\* The config selectedConfigId names in the state p, as the panel looks it
\* up.
SelectedConfigOf(p) ==
    IF p.selectedConfigId = Null THEN Null
    ELSE FindById(p.availableConfigs, p.selectedConfigId[1])

\* A load started without an id selects the config selected so far if the
\* list it discovered holds its id (the very file if the list still holds
\* it under that id), and the first config otherwise.
C21_SelectionStep ==
    \A i \in Started :
        LET c   == calls'[i]
            was == SelectedConfigOf(panel)
        IN  (c.op = "load" /\ c.configId = Absent /\ c.selectedConfig # Null
             /\ was # Null)
            => IF FindById(c.availableConfigs, was[1].id) # Null
               THEN /\ c.selectedConfig[1].id = was[1].id
                    /\ (\E e \in Range(c.availableConfigs) :
                            e.id = was[1].id /\ e.path = was[1].path)
                          => c.selectedConfig[1].path = was[1].path
               ELSE c.selectedConfig = Some(c.availableConfigs[1])

\* A load that reaches the ready state leaves the config it selected as the
\* selected one.
C21_ReadyStep ==
    \A i \in 1..Len(calls) :
        (calls[i].op = "load" /\ calls[i].status = "reading" /\ calls'[i].status = "ready")
        => panel'.selectedConfigId = Some(calls[i].selectedConfig[1].id)

(* C21: when loadConfiguration / loadTrace runs without an explicit id and   *)
(* the selected id is still among the discovered configs, the config with    *)
(* that id is the one loaded and it stays selected, whatever other files     *)
(* were added or removed; the selection falls back to the first discovered   *)
(* config only when the selected id is no longer discovered.                 *)
C21_SelectionSurvivesRescan == [][C21_SelectionStep /\ C21_ReadyStep]_vars

\* The two forms in which readFile can hand over the document of a file.
DocumentReads(path) ==
    {r \in ReadResults(path) :
        r.settles = "resolves" /\ r.content = JSONstringify(DocAt(path))}

(* C22: a load accepts both forms of a read result: whether readFile         *)
(* resolves with the content as a string or with an object that carries it   *)
(* in a content field, the load that awaits it reaches the ready state with  *)
(* the document of the file, and does not report 'Failed to read ... file'.  *)
C22_BothReadFormsAccepted ==
    \A i \in Loads :
        calls[i].status = "reading"
        => \A r \in DocumentReads(calls[i].selectedConfig[1].path) :
              LET done == LoadFinish(panel, calls[i], r)
              IN  /\ done.ok
                  /\ done.panel.error = Null
                  /\ done.panel.canvas = Some(DocAt(calls[i].selectedConfig[1].path))

\* ================================================================== further properties of the reconcilers

\* What no pass of applyChangesToCanvas writes: whether a node has a pv
\* object and a text property.  It tells the nodes of a document apart.
NodeMark(n) == <<n.hasPv, n.hasText>>

Marks(doc) == ArrayOf([i \in 1..Len(doc.nodes) |-> NodeMark(doc.nodes[i])], Len(doc.nodes))

EdgeIdsOf(edges) == ArrayOf([j \in 1..Len(edges) |-> edges[j].id], Len(edges))

\* sub holds items of full, each once, in the order they have in full.
KeepsOrder(sub, full) == sub = SeqFilter(full, Range(sub))

\* The edges of the returned document that the batch has not created.
Surviving == SubSeq(Returned.edges, 1, Len(Returned.edges) - Len(changes.createdEdges))

\* The k-th edge the batch has created.
Created(k) == Returned.edges[Len(Returned.edges) - Len(changes.createdEdges) + k]

(* C23: reconciliation preserves ordering: in the document returned by       *)
(* applyChangesToCanvas the surviving nodes are in the relative order they   *)
(* had in the original, so are the surviving edges, and the edges the batch  *)
(* created come after all surviving edges, in the order of createdEdges.     *)
C23_OrderPreserved ==
    pc = "done"
    => /\ KeepsOrder(Marks(Returned), Marks(Original))
       /\ Len(Returned.edges) >= Len(changes.createdEdges)
       /\ KeepsOrder(EdgeIdsOf(Surviving), EdgeIdsOf(Original.edges))
       /\ \A k \in 1..Len(changes.createdEdges) :
             /\ EdgeIs(Created(k), changes.createdEdges[k])
             /\ Created(k).id \notin Range(EdgeIdsOf(Original.edges))

\* An edge of the original is gone, another one survives, and the batch has
\* created an edge.
C23_Witness ==
    /\ pc = "done"
    /\ changes.createdEdges # <<>>
    /\ Surviving # <<>>
    /\ Len(Surviving) < Len(Original.edges)

\* The canonical side vocabulary.
Sides == {"top", "right", "bottom", "left"}

\* The side a handle id stands for: s for the handles 's' and 's-out' of a
\* side s, none for a missing handle and for any other handle.
SideOf(handle) ==
    IF handle \in {"top", "top-out"} THEN "top"
    ELSE IF handle \in {"right", "right-out"} THEN "right"
    ELSE IF handle \in {"bottom", "bottom-out"} THEN "bottom"
    ELSE IF handle \in {"left", "left-out"} THEN "left"
    ELSE Undefined

(* C24: handleToCanvasSide returns s for the handles 's' and 's-out' of each *)
(* side s and undefined for a missing or any other handle; every edge        *)
(* created by applyChangesToCanvas carries this mapping of sourceHandle and  *)
(* targetHandle as fromSide and toSide, so a stored side is one of the four  *)
(* sides or absent.                                                          *)
C24_HandlesMapToSides ==
    /\ \A k \in 1..Len(changes.createdEdges) :
          /\ handleToCanvasSide(changes.createdEdges[k].sourceHandle)
               = SideOf(changes.createdEdges[k].sourceHandle)
          /\ handleToCanvasSide(changes.createdEdges[k].targetHandle)
               = SideOf(changes.createdEdges[k].targetHandle)
    /\ pc = "done"
       => /\ \A k \in 1..Len(changes.createdEdges) :
                /\ Created(k).fromSide = SideOf(changes.createdEdges[k].sourceHandle)
                /\ Created(k).toSide = SideOf(changes.createdEdges[k].targetHandle)
          /\ \A j \in 1..Len(Returned.edges) :
                /\ Returned.edges[j].fromSide \in Sides \cup {Undefined}
                /\ Returned.edges[j].toSide \in Sides \cup {Undefined}

\* The batch has created an edge from a '-out' handle to a plain side handle
\* and an edge without a source handle to a handle that names no side.
C24_Witness ==
    /\ pc = "done"
    /\ \E k \in 1..Len(changes.createdEdges) :
          /\ changes.createdEdges[k].sourceHandle = "top-out"
          /\ Created(k).fromSide = "top"
          /\ Created(k).toSide = "bottom"
    /\ \E k \in 1..Len(changes.createdEdges) :
          /\ changes.createdEdges[k].sourceHandle = Undefined
          /\ changes.createdEdges[k].targetHandle = "center"
          /\ Created(k).fromSide = Undefined
          /\ Created(k).toSide = Undefined

\* ================================================================== further properties of the panels

\* No readFile and no writeFile is awaited.
NothingPending == \A i \in 1..Len(calls) : calls[i].status \notin {"reading", "writing"}

\* The documents a file can have handed over or taken: what readFile can
\* resolve with for its path, and what the saves of the run have written to
\* it.
DocumentsOf(path) ==
    {r.content.value : r \in {x \in ReadResults(path) : x.content.form = "json"}}
    \cup {written[k].content.value : k \in {n \in 1..Len(written) : written[n].path = path}}

\* The documents of a file as the panel can show them between a read and a
\* save: the file's documents, and their auto-layouts, which applyAutoLayout
\* puts on display before a save writes them.
DisplayedDocumentsOf(path) ==
    DocumentsOf(path) \cup {applySugiyamaLayout(d) : d \in DocumentsOf(path)}

(* C25: the displayed document belongs to the selected configuration: in     *)
(* every state in which no load and no save is pending and canvas is not     *)
(* null, a config is selected and canvas is a document read from, or saved   *)
(* to, the file of the config that selectedConfigId names (or the            *)
(* auto-layout of such a document, not yet saved).                           *)
C25_DocumentOfSelectedConfig ==
    (pc = "panel" /\ NothingPending /\ panel.canvas # Null)
    => /\ panel.selectedConfigId # Null
       /\ FindById(panel.availableConfigs, panel.selectedConfigId[1]) # Null
       /\ panel.canvas[1] \in
            DisplayedDocumentsOf(FindById(panel.availableConfigs, panel.selectedConfigId[1])[1].path)

\* A step that, while edits are unsaved, changes the selected config or the
\* loaded document or drops the unsaved mark.
C26_LosesEdits ==
    /\ pc = "panel"
    /\ panel.hasUnsavedChanges
    /\ \/ panel'.selectedConfigId # panel.selectedConfigId
       \/ panel'.canvas # panel.canvas
       \/ ~panel'.hasUnsavedChanges

(* C26: unsaved edits block a configuration switch: while hasUnsavedChanges  *)
(* is true, the selected config and the loaded document change, and the     *)
(* unsaved mark is dropped, only by the completion of a save, by a discard   *)
(* or by leaving edit mode; no selection, data:refresh or file-tree change   *)
(* does it.                                                                  *)
C26_UnsavedEditsBlockSwitch ==
    [][C26_LosesEdits => (WriteSettles \/ Discard \/ ToggleEditMode)]_vars

\* The effect on fileTreeData is about to run in the graph panel, with a
\* config selected, after the host has published on its own a loaded slice
\* with a new data object in which the file record of the selected config is
\* another object, is new or is gone, where the data before was an object as
\* well.
C27_SelectedRecordReplaced ==
    /\ pc = "panel" /\ kind = "config"
    /\ "data" \in pendingEffects
    /\ refs.origin = "host"
    /\ fileTreeDataRef.type = "object" /\ refs.type = "object" /\ ~tree.loading
    /\ fileTreeDataRef.id # refs.id
    /\ SelectedConfigOf(state) # Null
    /\ FindFileRecord(fileTreeDataRef, SelectedConfigOf(state)[1].path)
         # FindFileRecord(fileTreeData(tree, refs), SelectedConfigOf(state)[1].path)

(* C27: only the panel's own save is skipped by file-change detection: every *)
(* change of the file tree that the host publishes on its own (not to take   *)
(* up a write of the panel) and that replaces the file record of the         *)
(* selected config starts a loadConfiguration, whatever was saved, loaded or *)
(* rendered before.                                                          *)
C27_OnlyOwnSaveSkipped ==
    [][(C27_SelectedRecordReplaced /\ pendingEffects' = {})
       => Len(calls') > Len(calls)]_vars

\* The first load has returned early because the slice was loading, the
\* slice has finished loading since, and the effects of the render that
\* showed it have run.
SliceFinished ==
    /\ pc = "panel"
    /\ calls # <<>> /\ calls[1].status = "returned"
    /\ ~tree.loading
    /\ pendingEffects = {}

\* The panel shows one of the three states a load ends in: the document of
\* the selected file, the empty state, or an error.
LoadEnded ==
    /\ ~state.loading
    /\ \/ state.canvas # Null
       \/ state.error # Null
       \/ state.availableConfigs = <<>>

C29_LoadStep ==
    \A f \in Range(tree.allFiles) :
        TraceLoadOf(f)
        => /\ calls'[Len(calls')].configId = TraceFileOf(f)[1].id
           /\ calls'[Len(calls')].selectedConfig # Null
           /\ calls'[Len(calls')].selectedConfig[1].path = TraceFileOf(f)[1].path

C29_TracePathSelectsTrace == [][C29_LoadStep]_vars

\* ------------------------------------------------------------------ C30

(* C30: an empty batch is the identity: applyChangesToCanvas and             *)
(* applyChangesToConfig called with a batch whose positionChanges,           *)
(* dimensionChanges, nodeUpdates, deletedNodeIds, createdEdges and           *)
(* deletedEdges are all empty return a document equal to the original in     *)
(* nodes, edges / connections, type tables and display settings.             *)
C30_EmptyBatchIsIdentity ==
    (pc = "done" /\ Size(changes) = 0)
    => /\ Returned = Original
       /\ ReturnedConfig = OriginalConfig

\* An empty batch has been reconciled into a document with nodes, edges and
\* the automatic layout.
C30_Witness ==
    /\ pc = "done"
    /\ changes = EmptyChanges
    /\ updatedCanvas # canvas
    /\ updatedConfig # config
    /\ Len(Original.nodes) = 3
    /\ Len(OriginalConfig.allowedConnections) = 2
    /\ OriginalConfig.layout = "auto"
====
